---- MODULE Spec2Model ----
(***************************************************************************)
(* Model of omi_data.py: the timestamp normalizer, the Range Filter        *)
(* (filter_conversations_by_date), the parallel retrieval engine           *)
(* (get_conversations) and the incremental grouping sink (process_batch).  *)
(*                                                                         *)
(* Time is an integer number of ticks; a calendar day is TicksPerDay       *)
(* ticks.  A conversation is a function from field names to values, as the *)
(* Python dict is.                                                         *)
(***************************************************************************)
EXTENDS Integers, Sequences, FiniteSets, TLC

VARIABLES nconv, nfilter, nsink, fpage, fstart, fend, fres,
    source, outage, reliable, start_date, end_date, start_date_utc, end_date_utc, pc,
    all_data, offset, has_more_data, futures, active_requests, pending, batch_number,
    result, requests, sleeps, delivered, processed, faults, filterDouble,
    user_tz, final_organize_by_month, final_separate_transcripts,
    conversations_by_day, files_written, files, calls, last_batch, seen,
    sink_raised, interactive, export_conversations, export_memories,
    final_start_date, final_end_date, final_timezone, now, QUERY_START,
    QUERY_END, main_pc, network_calls, results, summary,
    limit, memories_offset, categories, remote_memories, current_offset,
    all_memories, memory_requests, memory_sleeps, memory_pc, memories

(* Timestamp Normalizer applied to one record:                             *)
(*   nconv          the record                                             *)
(*   nfilter        outcome of parse_timestamp_from_conversation           *)
(*   nsink          outcome of the sink's field scan with parse_timestamp  *)
(* Range Filter applied to one page (filter_conversations_by_date):        *)
(*   fpage          the page handed to the filter                          *)
(*   fstart, fend   the window bounds handed to the filter                 *)
(*   fres           the filter's result, once it has run                   *)
(* get_conversations:                                                      *)
(*   source         the remote collection, in the order the API serves it  *)
(*   outage         the remote fails every fetch after the primed page     *)
(*   reliable       the remote never answers a fetch with a failure        *)
(*   start_date, end_date          the arguments (ISO strings or None)     *)
(*   start_date_utc, end_date_utc  the parsed bounds                       *)
(*   pc             position in get_conversations                          *)
(*   all_data       accumulated output                                     *)
(*   offset         next new offset to submit                              *)
(*   has_more_data  the more-data flag                                     *)
(*   futures        the futures dict: offset -> answer of that fetch       *)
(*   active_requests the counter the code keeps beside futures             *)
(*   pending        futures the running as_completed() has yet to yield    *)
(*   result         what get_conversations returned                        *)
(*   requests       every fetch_page call issued, in order                 *)
(*   sleeps         count of time.sleep(RATE_LIMIT_RETRY_DELAY)            *)
(*   delivered      callback invocations: batch, running total, whether    *)
(*                  lock was held, fetches in flight at that moment        *)
(*   processed      page completions handled, in order                     *)
(*   faults         RateLimited / Failed answers given so far              *)
(*   filterDouble   offsets whose page a test double filters to nothing    *)
(* process_batch:                                                          *)
(*   user_tz        offset of the target zone, in ticks                    *)
(*   conversations_by_day   DayBucket map: day key -> sequence of records  *)
(*   files_written  WrittenSet                                             *)
(*   files          the export folder: path -> content written             *)
(*   calls          number of process_batch calls made                     *)
(*   last_batch     the batch of the latest process_batch call             *)
(*   seen           number of records handed to process_batch so far       *)
(*   sink_raised    the latest process_batch call ended in an exception    *)
(* the main program up to its first network call:                          *)
(*   interactive    args.interactive                                       *)
(*   export_conversations, export_memories   what the run exports          *)
(*   final_start_date, final_end_date        the configured date strings   *)
(*   final_timezone the configured time-zone name                          *)
(*   now            the instant datetime.now() reads                       *)
(*   QUERY_START, QUERY_END   the window main prepares for the retrieval   *)
(*   main_pc        position in the main program                           *)
(*   network_calls  number of requests main has issued                     *)
(*   results        main's list of exported conversations                  *)
(*   summary        the counts of conversations the final summary printed  *)
(* get_memories:                                                           *)
(*   limit, memories_offset, categories   the arguments                    *)
(*   remote_memories   number of memories the remote holds for the query   *)
(*   current_offset    the loop's cursor                                   *)
(*   all_memories      accumulated output                                  *)
(*   memory_requests   log of the requests issued, with their answers      *)
(*   memory_sleeps     number of time.sleep calls                          *)
(*   memory_pc         position in get_memories                            *)
(*   memories          the value returned                                  *)

normVars == <<nconv, nfilter, nsink>>
filterVars == <<fpage, fstart, fend, fres>>
engineVars == <<source, outage, reliable, start_date, end_date, start_date_utc,
                end_date_utc, pc, all_data, offset, has_more_data, futures, active_requests,
                pending, batch_number, result, requests, sleeps, delivered,
                processed, faults, filterDouble>>
sinkVars == <<user_tz, final_organize_by_month, final_separate_transcripts,
              conversations_by_day, files_written, files, calls, last_batch,
              seen, sink_raised>>
mainVars == <<interactive, export_conversations, export_memories,
              final_start_date, final_end_date, final_timezone, now,
              QUERY_START, QUERY_END, main_pc, network_calls, results,
              summary>>
memVars == <<limit, memories_offset, categories, remote_memories,
             current_offset, all_memories, memory_requests, memory_sleeps,
             memory_pc, memories>>
vars == <<normVars, filterVars, engineVars, sinkVars, mainVars, memVars>>

----------------------------------------------------------------------------
(* Bounds of the model *)

\* instants used in records and windows are 0..MaxTick
MaxTick == 3
\* longest page handed to the filter on its own
MaxPageLen == 3
\* most records the remote collection holds
MaxRecords == 5
\* most RateLimited / Failed answers the remote gives in one retrieval
MaxFaults == 2
\* Memories the remote holds at most
MaxMemories == 3
\* Largest page size asked of the memories endpoint
MaxLimit == 2
\* most records the sink is handed in one run, over all its batches
MaxSinkRecords == 4

(* Configuration (the globals of the CONFIGURATION block), scaled down *)
PAGE_LIMIT == 2
MAX_WORKERS == 2
TicksPerDay == 2
DaysPerMonth == 2

----------------------------------------------------------------------------
(* Values *)

Range(s) == {s[i] : i \in 1..Len(s)}

\* Python's None where a datetime is expected, and a datetime (UTC instant)
None == [ok |-> FALSE, t |-> 0]
Instant(t) == [ok |-> TRUE, t |-> t]

\* Raw field values as json delivers them.
\*   str/z        ISO string ending in the UTC marker Z
\*   str/offset   ISO string with an explicit offset off: local time t
\*   str/naive    ISO string without zone information
\*   str/fallback string fromisoformat rejects once Z became +00:00, and
\*                accepts with the Z removed
\*   str/bad      not an ISO string
\*   num/epoch    Unix epoch seconds
\*   num/range    number fromtimestamp rejects with ValueError (year out of
\*                range, NaN)
\*   num/huge     number fromtimestamp rejects with OverflowError (beyond the
\*                platform's time_t, infinity)
\*   other        null, list, dict
StrZ(t) == [kind |-> "str", form |-> "z", t |-> t, off |-> 0]
StrOffset(t, off) == [kind |-> "str", form |-> "offset", t |-> t, off |-> off]
StrNaive(t) == [kind |-> "str", form |-> "naive", t |-> t, off |-> 0]
StrFallback(t) == [kind |-> "str", form |-> "fallback", t |-> t, off |-> 0]
StrBad == [kind |-> "str", form |-> "bad", t |-> 0, off |-> 0]
NumEpoch(t) == [kind |-> "num", form |-> "epoch", t |-> t, off |-> 0]
NumRange == [kind |-> "num", form |-> "range", t |-> 0, off |-> 0]
NumHuge == [kind |-> "num", form |-> "huge", t |-> 0, off |-> 0]
Other == [kind |-> "other", form |-> "none", t |-> 0, off |-> 0]

\* datetime.fromisoformat: a datetime with or without tzinfo, or ValueError
IsoDateTime(t, aware, off) == [err |-> FALSE, t |-> t, aware |-> aware, off |-> off]
ValueError == [err |-> TRUE, t |-> 0, aware |-> FALSE, off |-> 0]

\* datetime.fromisoformat(value.replace('Z', '+00:00'))
fromisoformat_utc_marker(v) ==
    CASE v.form = "z" -> IsoDateTime(v.t, TRUE, 0)
      [] v.form = "offset" -> IsoDateTime(v.t, TRUE, v.off)
      [] v.form = "naive" -> IsoDateTime(v.t, FALSE, 0)
      [] OTHER -> ValueError

\* datetime.fromisoformat(value.replace('Z', '')).replace(tzinfo=UTC)
fromisoformat_stripped(v) ==
    CASE v.form \in {"z", "naive", "fallback", "offset"} -> IsoDateTime(v.t, TRUE, 0)
      [] OTHER -> ValueError

\* dt.replace(tzinfo=UTC) for a naive datetime, dt.astimezone(UTC) otherwise
to_utc(dt) == IF dt.aware THEN Instant(dt.t - dt.off) ELSE Instant(dt.t)

\* The body of the try block for one field value: a datetime, or None when
\* the value raised ValueError or is of a type neither branch takes.
parse_value(v) ==
    IF v.kind = "str"
    THEN LET first == fromisoformat_utc_marker(v)
             dt == IF first.err THEN fromisoformat_stripped(v) ELSE first
         IN  IF dt.err THEN None ELSE to_utc(dt)
    ELSE IF v.kind = "num"
         THEN IF v.form = "epoch" THEN Instant(v.t) ELSE None
         ELSE None

\* (variant: the handler takes every exception)
escapes_no_handler(v) == FALSE

\* except (ValueError, TypeError, OSError): the OverflowError of
\* datetime.fromtimestamp is none of them and leaves the function
escapes_handler(v) == v.kind = "num" /\ v.form = "huge"

\* The candidate timestamp fields, in priority order
TimestampFields ==
    <<"created_at", "timestamp", "date", "time", "started_at", "updated_at",
      "created", "start_time">>

RECURSIVE scan_fields(_, _)
scan_fields(conversation, i) ==
    IF i > Len(TimestampFields) THEN None
    ELSE IF TimestampFields[i] \in DOMAIN conversation
         THEN LET dt == parse_value(conversation[TimestampFields[i]])
              IN  IF dt.ok THEN dt ELSE scan_fields(conversation, i + 1)
         ELSE scan_fields(conversation, i + 1)

parse_timestamp_from_conversation(conversation) == scan_fields(conversation, 1)

\* Whether the scan ends in an exception: it reaches a value whose exception
\* escapes before it reaches one that parses
RECURSIVE scan_raises(_, _)
scan_raises(conversation, i) ==
    IF i > Len(TimestampFields) THEN FALSE
    ELSE IF TimestampFields[i] \in DOMAIN conversation
         THEN LET v == conversation[TimestampFields[i]]
              IN  IF escapes_handler(v) THEN TRUE
                  ELSE IF parse_value(v).ok THEN FALSE
                  ELSE scan_raises(conversation, i + 1)
         ELSE scan_raises(conversation, i + 1)

\* What a caller of a normalizer gets: a value returned, or an exception
Returned(value) == [ran |-> TRUE, raised |-> FALSE, value |-> value]
Raised == [ran |-> TRUE, raised |-> TRUE, value |-> None]
NotCalled == [ran |-> FALSE, raised |-> FALSE, value |-> None]

call_parse_timestamp_from_conversation(conversation) ==
    IF scan_raises(conversation, 1) THEN Raised
    ELSE Returned(parse_timestamp_from_conversation(conversation))

----------------------------------------------------------------------------
(* Range Filter *)

FilterResult(kept, cont) == [ran |-> TRUE, kept |-> kept, cont |-> cont]
NotRun == [ran |-> FALSE, kept |-> <<>>, cont |-> FALSE]

\* (variant: the start bound excludes a record dated exactly at start)
before_start_inclusive(ts, s) == s.ok /\ ts.t <= s.t

before_start(ts, s) == s.ok /\ ts.t < s.t
after_end(ts, e) == e.ok /\ ts.t > e.t

\* (variant: a record without a parseable timestamp is skipped, not kept)
filter_step_drops_unparseable(conv, s, e, acc) ==
    LET conv_date_utc == parse_timestamp_from_conversation(conv)
    IN  IF ~conv_date_utc.ok
        THEN acc
        ELSE LET out == before_start(conv_date_utc, s) \/ after_end(conv_date_utc, e)
             IN  [filtered |-> IF out THEN acc.filtered ELSE Append(acc.filtered, conv),
                  all_within_range |-> acc.all_within_range /\ ~out]

\* (variant: a record after the end bound is dropped without clearing
\* all_within_range)
filter_step_end_keeps_flag(conv, s, e, acc) ==
    LET conv_date_utc == parse_timestamp_from_conversation(conv)
    IN  IF ~conv_date_utc.ok
        THEN [acc EXCEPT !.filtered = Append(@, conv)]
        ELSE LET out == before_start(conv_date_utc, s) \/ after_end(conv_date_utc, e)
             IN  [filtered |-> IF out THEN acc.filtered ELSE Append(acc.filtered, conv),
                  all_within_range |-> acc.all_within_range
                                       /\ ~before_start(conv_date_utc, s)]

\* (variant: a kept record is put in front of the records kept before it)
filter_step_prepends(conv, s, e, acc) ==
    LET conv_date_utc == parse_timestamp_from_conversation(conv)
    IN  IF ~conv_date_utc.ok
        THEN [acc EXCEPT !.filtered = <<conv>> \o @]
        ELSE LET out == before_start(conv_date_utc, s) \/ after_end(conv_date_utc, e)
             IN  [filtered |-> IF out THEN acc.filtered ELSE <<conv>> \o acc.filtered,
                  all_within_range |-> acc.all_within_range /\ ~out]

\* (variant: a record before the start bound is dropped without clearing
\* all_within_range)
filter_step_start_keeps_flag(conv, s, e, acc) ==
    LET conv_date_utc == parse_timestamp_from_conversation(conv)
    IN  IF ~conv_date_utc.ok
        THEN [acc EXCEPT !.filtered = Append(@, conv)]
        ELSE LET out == before_start(conv_date_utc, s) \/ after_end(conv_date_utc, e)
             IN  [filtered |-> IF out THEN acc.filtered ELSE Append(acc.filtered, conv),
                  all_within_range |-> acc.all_within_range
                                       /\ ~after_end(conv_date_utc, e)]

\* One pass of the for loop: acc is [filtered, all_within_range]
filter_step(conv, s, e, acc) ==
    LET conv_date_utc == parse_timestamp_from_conversation(conv)
    IN  IF ~conv_date_utc.ok
        THEN [acc EXCEPT !.filtered = Append(@, conv)]
        ELSE LET out == before_start(conv_date_utc, s) \/ after_end(conv_date_utc, e)
             IN  [filtered |-> IF out THEN acc.filtered ELSE Append(acc.filtered, conv),
                  all_within_range |-> acc.all_within_range /\ ~out]

RECURSIVE filter_loop(_, _, _, _, _)
filter_loop(conversations, i, s, e, acc) ==
    IF i > Len(conversations) THEN acc
    ELSE filter_loop(conversations, i + 1, s, e, filter_step(conversations[i], s, e, acc))

filter_conversations_by_date(conversations, s, e) ==
    IF ~s.ok /\ ~e.ok THEN FilterResult(conversations, TRUE)
    ELSE LET acc == filter_loop(conversations, 1, s, e,
                                [filtered |-> <<>>, all_within_range |-> TRUE])
         IN  FilterResult(acc.filtered, acc.all_within_range)

----------------------------------------------------------------------------
(* Inputs *)

Ticks == 0..MaxTick
OptInstant == {None} \cup {Instant(t) : t \in Ticks}

\* A conversation with identifier id and the fields of shape
Conv(id, shape) == ("id" :> id) @@ shape

\* Field sets of conversations, one per path through the normalizer
FilterShapes ==
    {[created_at |-> NumEpoch(t)] : t \in Ticks}
    \cup {[created_at |-> StrBad, timestamp |-> StrZ(1)],
          [started_at |-> StrOffset(MaxTick, 1)],
          [created_at |-> NumRange, start_time |-> StrNaive(0)],
          [date |-> StrFallback(MaxTick)],
          [created_at |-> Other],
          [updated_at |-> StrBad, created |-> NumRange],
          [title |-> Other]}

RECURSIVE SeqsUpTo(_, _)
SeqsUpTo(S, n) ==
    IF n = 0 THEN {<<>>}
    ELSE LET shorter == SeqsUpTo(S, n - 1)
         IN  shorter \cup {Append(q, x) : q \in {r \in shorter : Len(r) = n - 1}, x \in S}

\* The sequence of shapes as conversations numbered from first
Numbered(shapes, first) == [i \in 1..Len(shapes) |-> Conv(first + i - 1, shapes[i])]

----------------------------------------------------------------------------
(* The states the parts of the program start in *)

\* Date strings of the configuration
\*   ymd      "2025-01-02"
\*   loose    "2025-1-2": not zero-padded, int() and strptime read it
\*   now      "now", "NOW"
\*   not_int  "2025-Jan-02"
\*   parts    "2025-01", "2025/01/02"
\*   range    "2025-13-01", "2025-02-30"
\*   none     Python None (no date configured)
DateYmd(d) == [form |-> "ymd", day |-> d]
DateLoose(d) == [form |-> "loose", day |-> d]
DateNow == [form |-> "now", day |-> 0]
DateNotInt == [form |-> "not_int", day |-> 0]
DateParts == [form |-> "parts", day |-> 0]
DateRange == [form |-> "range", day |-> 0]
DateNone == [form |-> "none", day |-> 0]

\* A window string main has not built
Unset == Other

MemIdle ==
    /\ limit = 0 /\ memories_offset = 0 /\ categories = ""
    /\ remote_memories = 0 /\ current_offset = 0
    /\ all_memories = <<>> /\ memory_requests = <<>>
    /\ memory_sleeps = 0 /\ memory_pc = "idle" /\ memories = <<>>

MainIdle ==
    /\ interactive = FALSE /\ export_conversations = FALSE
    /\ export_memories = FALSE
    /\ final_start_date = DateNone /\ final_end_date = DateNone
    /\ final_timezone = "" /\ now = 0
    /\ QUERY_START = Unset /\ QUERY_END = Unset
    /\ main_pc = "idle" /\ network_calls = 0
    /\ results = <<>> /\ summary = <<>>

NormIdle ==
    /\ nconv = <<>> /\ nfilter = NotCalled /\ nsink = NotCalled

FilterIdle ==
    /\ fpage = <<>> /\ fstart = None /\ fend = None /\ fres = NotRun

EngineIdle ==
    /\ source = <<>> /\ outage = FALSE /\ reliable = FALSE
    /\ start_date = Other /\ end_date = Other
    /\ start_date_utc = None /\ end_date_utc = None
    /\ pc = "idle" /\ all_data = <<>> /\ offset = 0 /\ has_more_data = FALSE
    /\ futures = <<>> /\ active_requests = 0 /\ pending = {} /\ batch_number = 1
    /\ result = <<>> /\ requests = <<>> /\ sleeps = 0 /\ delivered = <<>>
    /\ processed = <<>> /\ faults = 0 /\ filterDouble = {}

SinkIdle ==
    /\ user_tz = 0 /\ final_organize_by_month = FALSE
    /\ final_separate_transcripts = FALSE
    /\ conversations_by_day = <<>> /\ files_written = {} /\ files = <<>>
    /\ calls = 0 /\ last_batch = <<>> /\ seen = 0 /\ sink_raised = FALSE

----------------------------------------------------------------------------
(* The Range Filter on its own: one call on any page and window *)

FilterInit ==
    /\ fpage \in {Numbered(q, 1) : q \in SeqsUpTo(FilterShapes, MaxPageLen)}
    /\ fstart \in OptInstant
    /\ fend \in OptInstant
    /\ fres = NotRun
    /\ NormIdle /\ EngineIdle /\ SinkIdle /\ MainIdle /\ MemIdle

ApplyFilter ==
    /\ ~fres.ran
    /\ fres' = filter_conversations_by_date(fpage, fstart, fend)
    /\ UNCHANGED <<fpage, fstart, fend, normVars, engineVars, sinkVars, mainVars, memVars>>

FilterNext == ApplyFilter

SpecFilter == FilterInit /\ [][FilterNext]_vars

----------------------------------------------------------------------------
(* Page Fetcher and its remote *)

Min(a, b) == IF a < b THEN a ELSE b

\* What the remote holds at offset off: at most PAGE_LIMIT records
PageAt(off) == SubSeq(source, off + 1, Min(off + PAGE_LIMIT, Len(source)))

\* fetch_page returns (offset, data, None), (offset, None, "rate_limit") or
\* (offset, None, str(e)); the remote decides which
Answers == {"page", "rate_limit", "error"}
Faulty(kinds) == Cardinality({i \in DOMAIN kinds : kinds[i] # "page"})
\* The priming fetch is answered within the budget of faults; so is a fetch of
\* the parallel phase, unless the remote is down, when it fails
\* A reliable remote throttles within the same budget and never fails
Failures(kinds) == {i \in DOMAIN kinds : kinds[i] = "error"}
CanAnswerPriming(kind) ==
    /\ faults + Faulty(<<kind>>) <= MaxFaults
    /\ reliable => kind # "error"
CanAnswer(kinds) ==
    IF outage THEN \A i \in DOMAIN kinds : kinds[i] = "error"
    ELSE /\ faults + Faulty(kinds) <= MaxFaults
         /\ reliable => Failures(kinds) = {}
fetch_page(off, kind) ==
    [off |-> off,
     data |-> IF kind = "page" THEN PageAt(off) ELSE <<>>,
     error |-> IF kind = "page" THEN "none" ELSE kind]

Request(off, how) == [off |-> off, how |-> how]

----------------------------------------------------------------------------
(* get_conversations *)

\* Lines 403-419: an ISO string becomes a bound, anything else leaves None
parse_bound(d) ==
    IF d.kind = "str"
    THEN LET dt == fromisoformat_utc_marker(d)
         IN  IF dt.err THEN None ELSE to_utc(dt)
    ELSE None

\* The filter as the engine calls it; for the offsets in filterDouble a test
\* double answers (nothing kept, still within the window)
EngineFilter(off, data) ==
    IF off \in filterDouble THEN FilterResult(<<>>, TRUE)
    ELSE filter_conversations_by_date(data, start_date_utc, end_date_utc)

Handled(off, kind, data, fr) ==
    [off |-> off, kind |-> kind, count |-> Len(data), kept |-> fr.kept, cont |-> fr.cont]

\* (variant: the parallel phase calls back without taking the lock)
locked_section_none(phase) == FALSE

\* Lines 467-488 run outside any "with lock"; lines 592-598 run inside one
locked_section(phase) == phase = "parallel"

\* (variant: the callback is given the length all_data had before the batch)
Callback_total_before(log, batch, total, phase, in_flight) ==
    Append(log, [batch |-> batch, total |-> total - Len(batch),
                 locked |-> locked_section(phase), in_flight |-> in_flight])

\* callback(batch, len(all_data)), with what surrounds the call: whether lock
\* is held and how many fetches are with the executor
Callback(log, batch, total, phase, in_flight) ==
    Append(log, [batch |-> batch, total |-> total,
                 locked |-> locked_section(phase), in_flight |-> in_flight])

ParseDates ==
    /\ pc = "start"
    /\ start_date_utc' = parse_bound(start_date)
    /\ end_date_utc' = parse_bound(end_date)
    /\ pc' = "prime"
    /\ UNCHANGED <<source, outage, reliable, start_date, end_date, all_data, offset,
                   has_more_data, futures, active_requests, pending,
                   batch_number, result, requests, sleeps, delivered, processed, faults, filterDouble>>
    /\ UNCHANGED <<normVars, filterVars, sinkVars, mainVars, memVars>>

\* (variant: the retry follows without the wait)
sleep_skipped(slept) == slept

\* Line 443 and line 525: time.sleep(RATE_LIMIT_RETRY_DELAY)
sleep_after_rate_limit(slept) == slept + 1

\* (variant: a full primed page ends the retrieval too)
primed_done_at_limit(first_page_data) == Len(first_page_data) <= PAGE_LIMIT

\* Line 491: the primed page was the last one
primed_done(first_page_data) == Len(first_page_data) < PAGE_LIMIT

\* Lines 446-498: what the priming does with the answer it ends up with
PrimeResult(first_result, kind) ==
    IF first_result.error # "none" \/ first_result.data = <<>>
    THEN /\ result' = <<>>
         /\ pc' = "done"
         /\ processed' = Append(processed, Handled(0, kind, <<>>, FilterResult(<<>>, TRUE)))
         /\ UNCHANGED <<all_data, offset, has_more_data, batch_number, delivered>>
    ELSE LET fr == EngineFilter(0, first_result.data)
             first_page_data == fr.kept
         IN  /\ all_data' = all_data \o first_page_data
             /\ delivered' = IF first_page_data # <<>>
                             THEN Callback(delivered, first_page_data, Len(all_data'),
                                           "priming", Cardinality(DOMAIN futures))
                             ELSE delivered
             /\ processed' = Append(processed, Handled(0, kind, first_result.data, fr))
             /\ IF primed_done(first_page_data)
                THEN /\ result' = all_data'
                     /\ pc' = "done"
                     /\ UNCHANGED <<offset, has_more_data, batch_number>>
                ELSE /\ offset' = PAGE_LIMIT
                     /\ batch_number' = 2
                     /\ has_more_data' = TRUE
                     /\ pc' = "loop"
                     /\ UNCHANGED result

\* Lines 439-443: the first fetch of offset 0
PrimeFetch ==
    /\ pc = "prime"
    /\ \E kind \in Answers :
        /\ CanAnswerPriming(kind)
        /\ requests' = Append(requests, Request(0, "new"))
        /\ faults' = faults + Faulty(<<kind>>)
        /\ IF kind = "rate_limit"
           THEN /\ sleeps' = sleep_after_rate_limit(sleeps)
                /\ pc' = "retry"
                /\ UNCHANGED <<all_data, offset, has_more_data, batch_number, result,
                               delivered, processed>>
           ELSE /\ PrimeResult(fetch_page(0, kind), kind)
                /\ UNCHANGED sleeps
    /\ UNCHANGED <<source, outage, reliable, start_date, end_date, start_date_utc,
                   end_date_utc, futures, active_requests, pending, filterDouble>>
    /\ UNCHANGED <<normVars, filterVars, sinkVars, mainVars, memVars>>

\* (variant: a throttled retry waits and retries again)
PrimeRetry_again ==
    /\ pc = "retry"
    /\ \E kind \in Answers :
        /\ CanAnswerPriming(kind)
        /\ requests' = Append(requests, Request(0, "retry"))
        /\ faults' = faults + Faulty(<<kind>>)
        /\ IF kind = "rate_limit"
           THEN /\ processed' = Append(processed,
                                       Handled(0, kind, <<>>, FilterResult(<<>>, TRUE)))
                /\ UNCHANGED <<all_data, offset, has_more_data, batch_number, result,
                               delivered, pc>>
           ELSE PrimeResult(fetch_page(0, kind), kind)
    /\ UNCHANGED <<source, outage, reliable, start_date, end_date, start_date_utc,
                   end_date_utc, futures, active_requests, pending, sleeps, filterDouble>>
    /\ UNCHANGED <<normVars, filterVars, sinkVars, mainVars, memVars>>

\* Line 444: the one retry of offset 0
PrimeRetry ==
    /\ pc = "retry"
    /\ \E kind \in Answers :
        /\ CanAnswerPriming(kind)
        /\ requests' = Append(requests, Request(0, "retry"))
        /\ faults' = faults + Faulty(<<kind>>)
        /\ PrimeResult(fetch_page(0, kind), kind)
    /\ UNCHANGED <<source, outage, reliable, start_date, end_date, start_date_utc,
                   end_date_utc, futures, active_requests, pending, sleeps, filterDouble>>
    /\ UNCHANGED <<normVars, filterVars, sinkVars, mainVars, memVars>>

\* Lines 507-513: the while test and the submissions up to MAX_WORKERS; then
\* as_completed(futures) takes its snapshot of the futures dict
\* (variant: the cursor advances by one record, not by one page)
RECURSIVE NewOffsets_by_one(_, _)
NewOffsets_by_one(first, n) ==
    IF n = 0 THEN <<>> ELSE <<first>> \o NewOffsets_by_one(first + 1, n - 1)

\* (variant: the cursor is advanced before the fetch is submitted)
RECURSIVE NewOffsets_advanced_first(_, _)
NewOffsets_advanced_first(first, n) ==
    IF n = 0 THEN <<>>
    ELSE <<first + PAGE_LIMIT>> \o NewOffsets_advanced_first(first + PAGE_LIMIT, n - 1)

\* Lines 509-513: the offsets the submit loop takes from the cursor
RECURSIVE NewOffsets(_, _)
NewOffsets(first, n) ==
    IF n = 0 THEN <<>> ELSE <<first>> \o NewOffsets(first + PAGE_LIMIT, n - 1)

\* (variant: the submit loop does not count the fetches still in flight)
free_slots_ignoring_active == MAX_WORKERS

\* (variant: the loop condition reversed)
free_slots_reversed ==
    IF active_requests < MAX_WORKERS THEN 0 ELSE MAX_WORKERS - active_requests

\* Line 509: while active_requests < MAX_WORKERS
free_slots ==
    IF active_requests < MAX_WORKERS THEN MAX_WORKERS - active_requests ELSE 0

\* The cursor has no ceiling in the code.  The model tells offsets apart up
\* to OffsetCap, which no retrieval reaches while the remote keeps to its
\* budget of faults; from there on the cursor stands for every later offset,
\* and the fetches of those offsets are no longer entered in the logs
OffsetCap == (MaxFaults + 2) * MAX_WORKERS * PAGE_LIMIT
Beyond(off) == off >= OffsetCap

Submit ==
    /\ pc = "loop"
    /\ IF has_more_data
       THEN LET n == free_slots
                new == NewOffsets(offset, n)
            IN  \E kinds \in [1..n -> Answers] :
                /\ CanAnswer(kinds)
                /\ faults' = IF Beyond(offset) THEN faults ELSE faults + Faulty(kinds)
                /\ futures' = [o \in DOMAIN futures \cup Range(new) |->
                                 IF o \in DOMAIN futures THEN futures[o]
                                 ELSE kinds[CHOOSE i \in 1..n : new[i] = o]]
                /\ active_requests' = active_requests + n
                /\ offset' = IF Beyond(offset) THEN offset ELSE offset + n * PAGE_LIMIT
                /\ requests' = IF Beyond(offset) THEN requests
                               ELSE requests \o [i \in 1..n |-> Request(new[i], "new")]
                /\ pending' = DOMAIN futures'
                /\ pc' = "collect"
                /\ UNCHANGED result
       ELSE /\ result' = all_data
            /\ pc' = "done"
            /\ UNCHANGED <<futures, active_requests, offset, requests, pending, faults>>
    /\ UNCHANGED <<source, outage, reliable, start_date, end_date, start_date_utc,
                   end_date_utc, all_data, has_more_data, batch_number, sleeps, delivered,
                   processed, filterDouble>>
    /\ UNCHANGED <<normVars, filterVars, sinkVars, mainVars, memVars>>

\* Leaving the for loop by break: the while loop ends too, the executor is
\* shut down and all_data is returned
Break ==
    /\ has_more_data' = FALSE
    /\ result' = all_data'
    /\ pc' = "done"

\* (variant: the finished future stays in the futures dict)
Pop_keeps(page_offset) == futures

\* futures.pop(future)
Pop(page_offset) == [o \in DOMAIN futures \ {page_offset} |-> futures[o]]

\* (variant: the flag survives a page that crossed the window)
flag_kept_after_page(fr) == has_more_data

\* Lines 550-557: a page that is not wholly within the window clears the flag
flag_after_page(fr) == has_more_data /\ fr.cont

\* (variant: the resubmission is not counted as in flight)
OnRateLimited_slot_lost(page_offset) ==
    /\ sleeps' = sleep_after_rate_limit(sleeps)
    /\ requests' = Append(requests, Request(page_offset, "retry"))
    /\ \E again \in Answers :
           /\ CanAnswer(<<again>>)
           /\ faults' = faults + Faulty(<<again>>)
           /\ futures' = [futures EXCEPT ![page_offset] = again]
    /\ active_requests' = active_requests - 1
    /\ UNCHANGED <<all_data, delivered, has_more_data, batch_number, result, pc>>

\* Lines 517-530: a throttled fetch is waited out and submitted again; the
\* new future takes the slot the old one gave up at line 517
OnRateLimited(page_offset) ==
    /\ sleeps' = sleep_after_rate_limit(sleeps)
    /\ requests' = Append(requests, Request(page_offset, "retry"))
    /\ \E again \in Answers :
           /\ CanAnswer(<<again>>)
           /\ faults' = faults + Faulty(<<again>>)
           /\ futures' = [futures EXCEPT ![page_offset] = again]
    /\ UNCHANGED <<active_requests, all_data, delivered, has_more_data,
                   batch_number, result, pc>>

\* (variant: a failed page is fetched again)
OnFailed_retries(page_offset) ==
    /\ requests' = Append(requests, Request(page_offset, "retry"))
    /\ futures' = [futures EXCEPT ![page_offset] = "page"]
    /\ UNCHANGED <<sleeps, active_requests, all_data, delivered, faults,
                   has_more_data, batch_number, result, pc>>

\* (variant: a failed page ends the retrieval)
OnFailed_aborts(page_offset) ==
    /\ futures' = Pop(page_offset)
    /\ active_requests' = active_requests - 1
    /\ UNCHANGED <<sleeps, requests, all_data, delivered, faults, batch_number>>
    /\ Break

\* Lines 517-518 and 531-533: a failed fetch is reported and passed over
OnFailed(page_offset) ==
    /\ futures' = Pop(page_offset)
    /\ active_requests' = active_requests - 1
    /\ UNCHANGED <<sleeps, requests, all_data, delivered, faults,
                   has_more_data, batch_number, result, pc>>

\* (variant: a page that crossed the window is never delivered)
stop_without_delivery_always(fr, filtered_data) == ~fr.cont

\* Lines 550-560: the page crossed the window and nothing of it was kept
stop_without_delivery(fr, filtered_data) == ~fr.cont /\ filtered_data = <<>>

\* Lines 516-609: as_completed yields the finished fetch of page_offset
Complete(page_offset) ==
    /\ pc = "collect"
    /\ page_offset \in pending
    /\ pending' = pending \ {page_offset}
    /\ LET kind == futures[page_offset]
           res == fetch_page(page_offset, kind)
           data == res.data
           original_count == Len(data)
           fr == IF kind = "page" /\ data # <<>>
                 THEN EngineFilter(page_offset, data) ELSE FilterResult(<<>>, TRUE)
           filtered_data == fr.kept
       IN  /\ processed' = IF Beyond(page_offset) THEN processed
                           ELSE Append(processed, Handled(page_offset, kind, data, fr))
           /\ CASE res.error = "rate_limit" -> OnRateLimited(page_offset)
                [] res.error = "error" -> OnFailed(page_offset)
                [] res.error = "none" /\ data = <<>> ->
                     /\ futures' = Pop(page_offset)
                     /\ active_requests' = active_requests - 1
                     /\ UNCHANGED <<sleeps, requests, all_data, delivered,
                                    batch_number, faults>>
                     /\ Break
                [] res.error = "none" /\ data # <<>> ->
                     /\ futures' = Pop(page_offset)
                     /\ active_requests' = active_requests - 1
                     /\ UNCHANGED <<sleeps, requests, faults>>
                     /\ IF stop_without_delivery(fr, filtered_data)
                        THEN /\ UNCHANGED <<all_data, delivered, batch_number>>
                             /\ Break
                        ELSE IF fr.cont /\ filtered_data = <<>> /\ original_count = PAGE_LIMIT
                        THEN /\ batch_number' = batch_number + 1
                             /\ UNCHANGED <<all_data, delivered, has_more_data, result, pc>>
                        ELSE /\ batch_number' = batch_number + 1
                             /\ all_data' = all_data \o filtered_data
                             /\ delivered' = IF filtered_data # <<>>
                                             THEN Callback(delivered, filtered_data,
                                                      Len(all_data'), "parallel",
                                                      Cardinality(DOMAIN futures'))
                                             ELSE delivered
                             /\ IF original_count < PAGE_LIMIT
                                THEN Break
                                ELSE /\ has_more_data' = flag_after_page(fr)
                                     /\ UNCHANGED <<result, pc>>
    /\ UNCHANGED <<source, outage, reliable, start_date, end_date, start_date_utc,
                   end_date_utc, offset, filterDouble>>
    /\ UNCHANGED <<normVars, filterVars, sinkVars, mainVars, memVars>>

\* Lines 611-613 and the while test: as_completed is exhausted
RoundEnd ==
    /\ pc = "collect"
    /\ pending = {}
    /\ IF ~has_more_data
       THEN /\ result' = all_data
            /\ pc' = "done"
       ELSE /\ pc' = "loop"
            /\ UNCHANGED result
    /\ UNCHANGED <<source, outage, reliable, start_date, end_date, start_date_utc,
                   end_date_utc, all_data, offset, has_more_data, futures, active_requests,
                   pending, batch_number, requests, sleeps, delivered, processed,
                   faults, filterDouble>>
    /\ UNCHANGED <<normVars, filterVars, sinkVars, mainVars, memVars>>

----------------------------------------------------------------------------
(* One retrieval from any remote collection *)

\* Records dated inside the window [1, 2], dated after it, and undated
InWindowShape == [created_at |-> NumEpoch(1)]
AfterEndShape == [created_at |-> NumEpoch(MaxTick)]
UndatedShape == [created_at |-> Other]

\* The collections: any order of dated records, or any mix of in-window and
\* undated records
EngineSources ==
    {Numbered(q, 1) : q \in SeqsUpTo({InWindowShape, AfterEndShape}, MaxRecords)
                            \cup SeqsUpTo({InWindowShape, UndatedShape}, MaxRecords)}

EngineInit ==
    /\ source \in EngineSources
    /\ outage = FALSE /\ reliable = FALSE
    /\ start_date \in {Other, StrZ(1), StrBad}
    /\ end_date \in {Other, StrZ(2)}
    /\ start_date_utc = None /\ end_date_utc = None
    /\ pc = "start" /\ all_data = <<>> /\ offset = 0 /\ has_more_data = FALSE
    /\ futures = <<>> /\ active_requests = 0 /\ pending = {} /\ batch_number = 1
    /\ result = <<>> /\ requests = <<>> /\ sleeps = 0 /\ delivered = <<>>
    /\ processed = <<>> /\ faults = 0 /\ filterDouble = {}
    /\ NormIdle /\ FilterIdle /\ SinkIdle /\ MainIdle /\ MemIdle

\* The same retrieval with a test double in place of the filter for the
\* pages at the offsets of filterDouble
DoubleInit ==
    /\ source \in {Numbered(q, 1) : q \in SeqsUpTo({InWindowShape}, MaxRecords)}
    /\ outage = FALSE /\ reliable = FALSE
    /\ start_date \in {Other, StrZ(1)}
    /\ end_date \in {Other, StrZ(2)}
    /\ start_date_utc = None /\ end_date_utc = None
    /\ pc = "start" /\ all_data = <<>> /\ offset = 0 /\ has_more_data = FALSE
    /\ futures = <<>> /\ active_requests = 0 /\ pending = {} /\ batch_number = 1
    /\ result = <<>> /\ requests = <<>> /\ sleeps = 0 /\ delivered = <<>>
    /\ processed = <<>> /\ faults = 0
    /\ filterDouble \in (SUBSET {0, PAGE_LIMIT}) \ {{}}
    /\ NormIdle /\ FilterIdle /\ SinkIdle /\ MainIdle /\ MemIdle

CompleteOne == \E page_offset \in pending : Complete(page_offset)

Next ==
    \/ ParseDates
    \/ PrimeFetch
    \/ PrimeRetry
    \/ Submit
    \/ CompleteOne
    \/ RoundEnd

Spec == EngineInit /\ [][Next]_vars

SpecDouble == DoubleInit /\ [][Next]_vars

\* A retrieval from a remote that serves the primed page and then goes down.
\* The main thread keeps running and every fetch ends within its timeout, so
\* a step that can be taken is taken
FailingInit ==
    /\ source \in EngineSources
    /\ outage = TRUE /\ reliable = FALSE
    /\ start_date \in {Other, StrZ(1), StrBad}
    /\ end_date \in {Other, StrZ(2)}
    /\ start_date_utc = None /\ end_date_utc = None
    /\ pc = "start" /\ all_data = <<>> /\ offset = 0 /\ has_more_data = FALSE
    /\ futures = <<>> /\ active_requests = 0 /\ pending = {} /\ batch_number = 1
    /\ result = <<>> /\ requests = <<>> /\ sleeps = 0 /\ delivered = <<>>
    /\ processed = <<>> /\ faults = 0 /\ filterDouble = {}
    /\ NormIdle /\ FilterIdle /\ SinkIdle /\ MainIdle /\ MemIdle

SpecFailing == FailingInit /\ [][Next]_vars /\ WF_vars(Next)

\* A retrieval from a finite remote that answers every offset past its end
\* with an empty page, throttles at most MaxFaults times and never fails.
\* The main thread keeps running and every fetch ends within its timeout
\* (line 380), so a step that can be taken is taken
ReliableInit ==
    /\ source \in EngineSources
    /\ outage = FALSE /\ reliable = TRUE
    /\ start_date \in {Other, StrZ(1), StrBad}
    /\ end_date \in {Other, StrZ(2)}
    /\ start_date_utc = None /\ end_date_utc = None
    /\ pc = "start" /\ all_data = <<>> /\ offset = 0 /\ has_more_data = FALSE
    /\ futures = <<>> /\ active_requests = 0 /\ pending = {} /\ batch_number = 1
    /\ result = <<>> /\ requests = <<>> /\ sleeps = 0 /\ delivered = <<>>
    /\ processed = <<>> /\ faults = 0 /\ filterDouble = {}
    /\ NormIdle /\ FilterIdle /\ SinkIdle /\ MainIdle /\ MemIdle

SpecReliable == ReliableInit /\ [][Next]_vars /\ WF_vars(Next)

----------------------------------------------------------------------------
(* process_batch: grouping by day and the per-day files *)

\* (variant: a string the first fromisoformat rejects is not tried again)
parse_timestamp_single_try(timestamp_value) ==
    IF timestamp_value.kind = "str"
    THEN LET dt == fromisoformat_utc_marker(timestamp_value)
         IN  IF dt.err THEN None ELSE to_utc(dt)
    ELSE IF timestamp_value.kind = "num"
         THEN IF timestamp_value.form = "epoch" THEN Instant(timestamp_value.t) ELSE None
         ELSE None

\* Lines 1066-1106: the sink's own normalizer of one field value
parse_timestamp(timestamp_value) ==
    IF timestamp_value.kind = "str"
    THEN LET first == fromisoformat_utc_marker(timestamp_value)
             dt == IF first.err THEN fromisoformat_stripped(timestamp_value) ELSE first
         IN  IF dt.err THEN None ELSE to_utc(dt)
    ELSE IF timestamp_value.kind = "num"
         THEN IF timestamp_value.form = "epoch" THEN Instant(timestamp_value.t) ELSE None
         ELSE None

\* Lines 1119-1126: the field scan of process_batch
RECURSIVE sink_scan(_, _)
sink_scan(conversation, i) ==
    IF i > Len(TimestampFields) THEN None
    ELSE IF TimestampFields[i] \in DOMAIN conversation
         THEN LET timestamp_utc == parse_timestamp(conversation[TimestampFields[i]])
              IN  IF timestamp_utc.ok THEN timestamp_utc
                  ELSE sink_scan(conversation, i + 1)
         ELSE sink_scan(conversation, i + 1)

\* Whether the sink's scan ends in an exception (parse_timestamp has the
\* same handler, lines 1104-1105)
RECURSIVE sink_scan_raises(_, _)
sink_scan_raises(conversation, i) ==
    IF i > Len(TimestampFields) THEN FALSE
    ELSE IF TimestampFields[i] \in DOMAIN conversation
         THEN LET v == conversation[TimestampFields[i]]
              IN  IF escapes_handler(v) THEN TRUE
                  ELSE IF parse_timestamp(v).ok THEN FALSE
                  ELSE sink_scan_raises(conversation, i + 1)
         ELSE sink_scan_raises(conversation, i + 1)

call_sink_scan(conversation) ==
    IF sink_scan_raises(conversation, 1) THEN Raised
    ELSE Returned(sink_scan(conversation, 1))

\* Day keys: a calendar day of the target zone, or "unknown"
Day(d) == [known |-> TRUE, day |-> d]
Unknown == [known |-> FALSE, day |-> 0]

\* (variant: the day is taken from the UTC instant, not the local time)
local_day_utc(timestamp_utc) == Day(timestamp_utc.t \div TicksPerDay)

\* timestamp_utc.astimezone(user_tz).strftime("%Y-%m-%d")
local_day(timestamp_utc) == Day((timestamp_utc.t + user_tz) \div TicksPerDay)

day_key_of(conversation) ==
    LET timestamp_utc == sink_scan(conversation, 1)
    IN  IF timestamp_utc.ok THEN local_day(timestamp_utc) ELSE Unknown

\* conversations_by_day[day_key] of a defaultdict(list)
Bucket(by_day, day_key) == IF day_key \in DOMAIN by_day THEN by_day[day_key] ELSE <<>>

\* (variant: a record without a resolvable day is left out)
group_step_skips_undated(conversation, written, acc) ==
    LET day_key == day_key_of(conversation)
    IN  IF ~day_key.known THEN acc
        ELSE [by_day |-> [k \in DOMAIN acc.by_day \cup {day_key} |->
                            IF k = day_key
                            THEN Append(Bucket(acc.by_day, k), conversation)
                            ELSE acc.by_day[k]],
              new_days_found |-> IF day_key \notin written
                                 THEN Append(acc.new_days_found, day_key)
                                 ELSE acc.new_days_found]

\* (variant: a record is put at the head of its bucket)
group_step_prepends(conversation, written, acc) ==
    LET day_key == day_key_of(conversation)
    IN  [by_day |-> [k \in DOMAIN acc.by_day \cup {day_key} |->
                        IF k = day_key THEN <<conversation>> \o Bucket(acc.by_day, k)
                        ELSE acc.by_day[k]],
         new_days_found |-> IF day_key \notin written
                            THEN Append(acc.new_days_found, day_key)
                            ELSE acc.new_days_found]

\* Lines 1117-1141: the grouping loop from record i on; acc is
\* [by_day, new_days_found], written is files_written
group_step(conversation, written, acc) ==
    LET day_key == day_key_of(conversation)
    IN  [by_day |-> [k \in DOMAIN acc.by_day \cup {day_key} |->
                        IF k = day_key THEN Append(Bucket(acc.by_day, k), conversation)
                        ELSE acc.by_day[k]],
         new_days_found |-> IF day_key \notin written
                            THEN Append(acc.new_days_found, day_key)
                            ELSE acc.new_days_found]

RECURSIVE group_loop(_, _, _, _)
group_loop(batch_conversations, i, written, acc) ==
    IF i > Len(batch_conversations) THEN acc
    ELSE group_loop(batch_conversations, i + 1, written,
                    group_step(batch_conversations[i], written, acc))

days_to_save_new_only(written, by_day, new_days_found) ==
    Range(new_days_found)

\* Lines 1144-1148
days_to_save(written, by_day, new_days_found) ==
    Range(new_days_found)
    \cup {day_key \in DOMAIN by_day :
            day_key \notin written \/ day_key \in Range(new_days_found)}

\* Lines 1155-1179 and the file names: where a day's files go
Folder(day_key) ==
    IF final_organize_by_month
    THEN IF day_key.known THEN [kind |-> "month", m |-> day_key.day \div DaysPerMonth]
         ELSE [kind |-> "unknown", m |-> 0]
    ELSE [kind |-> "flat", m |-> 0]

Path(day_key, part) == [folder |-> Folder(day_key), day |-> day_key, part |-> part]

\* conv.get("transcript_segments", [])
transcript_segments_of(conv) ==
    IF "transcript_segments" \in DOMAIN conv THEN conv["transcript_segments"] ELSE <<>>

\* conv.get(field)
Get(conv, field) == IF field \in DOMAIN conv THEN conv[field] ELSE Other

\* Line 1191
conv_metadata(conv) == [k \in DOMAIN conv \ {"transcript_segments"} |-> conv[k]]

conversations_metadata(day_conversations) ==
    [i \in 1..Len(day_conversations) |-> conv_metadata(day_conversations[i])]

\* (variant: a record carrying the field counts, empty or not)
has_transcript_field(conv) == "transcript_segments" \in DOMAIN conv

\* Lines 1195-1200
has_transcript(conv) == transcript_segments_of(conv) # <<>>

transcript_entry(conv) ==
    [conversation_id |-> conv["id"],
     created_at |-> Get(conv, "created_at"),
     transcript_segments |-> transcript_segments_of(conv)]

transcripts_data(day_conversations) ==
    LET with == SelectSeq(day_conversations, has_transcript)
    IN  [i \in 1..Len(with) |-> transcript_entry(with[i])]

\* Lines 1181-1234: the files one day's flush writes, as path -> content
day_files(day_key, day_conversations) ==
    IF final_separate_transcripts
    THEN IF transcripts_data(day_conversations) # <<>>
         THEN (Path(day_key, "conversations") :> conversations_metadata(day_conversations))
              @@ (Path(day_key, "transcripts") :> transcripts_data(day_conversations))
         ELSE (Path(day_key, "conversations") :> conversations_metadata(day_conversations))
    ELSE (Path(day_key, "conversations") :> day_conversations)

\* (variant: the file is opened for appending)
write_file_appending(old, content) == old \o content

\* with open(filepath, "w") as f: json.dump(content, f): what the file holds
\* afterwards, old being what it held before (nothing when it was not there)
write_file(old, content) == content

\* Lines 1150-1242: the flush of every day in to_save into folder
flush_onto(folder, by_day, to_save) ==
    [p \in DOMAIN folder \cup UNION {DOMAIN day_files(k, by_day[k]) : k \in to_save} |->
        IF \E k \in to_save : p \in DOMAIN day_files(k, by_day[k])
        THEN LET k == CHOOSE k \in to_save : p \in DOMAIN day_files(k, by_day[k])
             IN  write_file(IF p \in DOMAIN folder THEN folder[p] ELSE <<>>,
                            day_files(k, by_day[k])[p])
        ELSE folder[p]]

flush(by_day, to_save) == flush_onto(files, by_day, to_save)

\* (variant: a record whose scan raises is passed over)
RECURSIVE grouped_skipping_raise(_)
grouped_skipping_raise(batch_conversations) ==
    IF batch_conversations = <<>> THEN <<>>
    ELSE IF sink_scan_raises(Head(batch_conversations), 1)
         THEN grouped_skipping_raise(Tail(batch_conversations))
         ELSE <<Head(batch_conversations)>>
              \o grouped_skipping_raise(Tail(batch_conversations))

\* Lines 1117-1126: the records the for loop groups before a scan raises
RECURSIVE grouped_before_raise(_)
grouped_before_raise(batch_conversations) ==
    IF batch_conversations = <<>> THEN <<>>
    ELSE IF sink_scan_raises(Head(batch_conversations), 1) THEN <<>>
         ELSE <<Head(batch_conversations)>>
              \o grouped_before_raise(Tail(batch_conversations))

\* The grouping and the flush of one call (lines 1113-1242).  The def's
\* body runs on to line 1326 (the call of get_conversations and the final
\* summary are indented into it); that tail is not part of this operator.
\* When the scan of a record raises, the exception leaves process_batch from
\* inside the grouping loop: the records before it are in their buckets, the
\* rest of the batch is not looked at and nothing is flushed.
process_batch(batch_conversations) ==
    LET grouped == grouped_before_raise(batch_conversations)
        acc == group_loop(grouped, 1, files_written,
                          [by_day |-> conversations_by_day, new_days_found |-> <<>>])
        to_save == days_to_save(files_written, acc.by_day, acc.new_days_found)
    IN  /\ conversations_by_day' = acc.by_day
        /\ sink_raised' = (grouped # batch_conversations)
        /\ IF sink_raised'
           THEN UNCHANGED <<files, files_written>>
           ELSE /\ files' = flush(acc.by_day, to_save)
                /\ files_written' = files_written \cup to_save

\* The export folder the same call leaves when files_written holds written
files_after(batch_conversations, written) ==
    LET grouped == grouped_before_raise(batch_conversations)
        acc == group_loop(grouped, 1, written,
                          [by_day |-> conversations_by_day, new_days_found |-> <<>>])
    IN  IF grouped # batch_conversations THEN files
        ELSE flush(acc.by_day, days_to_save(written, acc.by_day, acc.new_days_found))

----------------------------------------------------------------------------
(* The sink on its own: any batches, one call after the other *)

SinkShapes ==
    {[created_at |-> NumEpoch(1)],
     [created_at |-> NumEpoch(2), transcript_segments |-> <<"segment">>],
     [created_at |-> StrZ(MaxTick), transcript_segments |-> <<>>],
     [created_at |-> Other, timestamp |-> StrBad],
     [started_at |-> NumEpoch(0), transcript_segments |-> <<"segment">>],
     [created_at |-> NumHuge, timestamp |-> StrZ(1)]}

Stored == IF DOMAIN conversations_by_day = {} THEN 0
          ELSE LET keys == DOMAIN conversations_by_day
                   RECURSIVE Sum(_)
                   Sum(K) == IF K = {} THEN 0
                             ELSE LET k == CHOOSE k \in K : TRUE
                                  IN  Len(conversations_by_day[k]) + Sum(K \ {k})
               IN  Sum(keys)

SinkInit ==
    /\ user_tz \in {-1, 0}
    /\ final_organize_by_month \in BOOLEAN
    /\ final_separate_transcripts \in BOOLEAN
    /\ conversations_by_day = <<>> /\ files_written = {} /\ files = <<>>
    /\ calls = 0 /\ last_batch = <<>> /\ seen = 0 /\ sink_raised = FALSE
    /\ NormIdle /\ FilterIdle /\ EngineIdle /\ MainIdle /\ MemIdle

ProcessBatch ==
    /\ seen < MaxSinkRecords
    /\ \E q \in SeqsUpTo(SinkShapes, MaxSinkRecords - seen) :
        /\ q # <<>>
        /\ last_batch' = Numbered(q, seen + 1)
        /\ seen' = seen + Len(q)
        /\ process_batch(last_batch')
    /\ calls' = calls + 1
    /\ UNCHANGED <<user_tz, final_organize_by_month, final_separate_transcripts>>
    /\ UNCHANGED <<normVars, filterVars, engineVars, mainVars, memVars>>

SinkNext == ProcessBatch

SpecSink == SinkInit /\ [][SinkNext]_vars

----------------------------------------------------------------------------
(* The two normalizers on their own: one record, each normalizer once *)

RawValues ==
    {StrZ(1), StrOffset(MaxTick, 1), StrNaive(0), StrFallback(2), StrBad,
     NumEpoch(2), NumRange, NumHuge, Other}

\* Records with one or two of the candidate fields, and any values in them
NormalizerRecords ==
    {Conv(1, (TimestampFields[i] :> v)) : i \in DOMAIN TimestampFields, v \in RawValues}
    \cup {Conv(1, (TimestampFields[i] :> v) @@ (TimestampFields[j] :> w)) :
            i \in DOMAIN TimestampFields, j \in DOMAIN TimestampFields,
            v \in RawValues, w \in RawValues}

NormalizerInit ==
    /\ nconv \in NormalizerRecords
    /\ nfilter = NotCalled /\ nsink = NotCalled
    /\ FilterIdle /\ EngineIdle /\ SinkIdle /\ MainIdle /\ MemIdle

NormalizeForFilter ==
    /\ ~nfilter.ran
    /\ nfilter' = call_parse_timestamp_from_conversation(nconv)
    /\ UNCHANGED <<nconv, nsink, filterVars, engineVars, sinkVars, mainVars, memVars>>

NormalizeForSink ==
    /\ ~nsink.ran
    /\ nsink' = call_sink_scan(nconv)
    /\ UNCHANGED <<nconv, nfilter, filterVars, engineVars, sinkVars, mainVars, memVars>>

NormalizerNext ==
    \/ NormalizeForFilter
    \/ NormalizeForSink

SpecNormalizer == NormalizerInit /\ [][NormalizerNext]_vars

----------------------------------------------------------------------------
(* The main program: configuration of the export, up to the first request *)

\* Time-zone names and the distance of their zone from UTC, in ticks
ZoneOffsets ==
    ("UTC" :> 0) @@ ("America/Los_Angeles" :> -1) @@ ("Asia/Tokyo" :> 1)

\* Names the tz database does not hold: "Asia/Mumbai" is entry 14 of
\* common_timezones (line 808), "" is not a key at all
UnknownZones == {"Asia/Mumbai", ""}

\* ZoneInfo(key): the zone, or ZoneInfoNotFoundError / ValueError
ZoneInfo(key) ==
    IF key \in DOMAIN ZoneOffsets THEN Returned(ZoneOffsets[key]) ELSE Raised

\* (variant: a string that is not a date reads as day 0)
date_parts_lenient(s) == Returned(s.day)

\* Lines 1013 and 1024: map(int, s.split("-")) unpacked into year, month, day
\* and handed to datetime(): the day, or ValueError (AttributeError for None)
date_parts(s) ==
    IF s.form \in {"ymd", "loose"} THEN Returned(s.day) ELSE Raised

\* Lines 1031-1032: a wall-clock time of the zone as a UTC instant
astimezone_utc(wall, tz) == wall - tz

\* Lines 1012-1016: midnight of the start day in the zone
parse_start_date(s, tz) ==
    LET d == date_parts(s)
    IN  IF d.raised THEN Raised
        ELSE Returned(astimezone_utc(d.value * TicksPerDay, tz))

\* Lines 1019-1028: the instant now, or the last tick (23:59:59) of the end
\* day in the zone
parse_end_date(s, tz, clock) ==
    IF s.form = "none" THEN Raised
    ELSE IF s.form = "now" THEN Returned(astimezone_utc(clock + tz, tz))
    ELSE LET d == date_parts(s)
         IN  IF d.raised THEN Raised
             ELSE Returned(astimezone_utc(d.value * TicksPerDay + (TicksPerDay - 1), tz))

\* Lines 1034-1035: strftime("%Y-%m-%dT%H:%M:%SZ")
strftime_z(t) == StrZ(t)

\* days the configured dates name are 0..MaxDay
MaxDay == 2

\* What validate_date (lines 765-772) lets through at the prompt
PromptDates ==
    {DateYmd(d) : d \in 0..MaxDay} \cup {DateLoose(1), DateNow}

\* What --start-date / --end-date and START_DATE / END_DATE can hold
ArgDates ==
    PromptDates \cup {DateNotInt, DateParts, DateRange, DateNone}

\* State at "if __name__" once the arguments and prompts are read (lines
\* 726-983): the prompts validate dates and zone names, but take "now" as a
\* start date and offer "Asia/Mumbai"; without --interactive conversations
\* are exported, memories are not, and nothing is validated
MainInit ==
    /\ interactive \in BOOLEAN
    /\ IF interactive
       THEN /\ export_conversations \in BOOLEAN
            /\ export_memories \in BOOLEAN
            /\ export_conversations \/ export_memories
            /\ IF export_conversations
               THEN /\ final_start_date \in PromptDates
                    /\ final_end_date \in PromptDates
                    /\ final_timezone \in DOMAIN ZoneOffsets \cup {"Asia/Mumbai"}
               ELSE /\ final_start_date = DateNone /\ final_end_date = DateNone
                    /\ final_timezone = ""
       ELSE /\ export_conversations = TRUE /\ export_memories = FALSE
            /\ final_start_date \in ArgDates
            /\ final_end_date \in ArgDates
            /\ final_timezone \in DOMAIN ZoneOffsets \cup UnknownZones
    /\ now \in 0..MaxTick
    /\ QUERY_START = Unset /\ QUERY_END = Unset
    /\ main_pc = "configure" /\ network_calls = 0
    /\ results = <<>> /\ summary = <<>>
    /\ NormIdle /\ FilterIdle /\ EngineIdle /\ SinkIdle /\ MemIdle

\* Lines 1007-1036: the zone and the two dates are read in this order and the
\* first exception ends the run
ConfigureExport ==
    /\ main_pc = "configure"
    /\ export_conversations
    /\ LET zone == ZoneInfo(final_timezone)
           start_utc == parse_start_date(final_start_date, zone.value)
           end_utc == parse_end_date(final_end_date, zone.value, now)
       IN  IF zone.raised
           THEN /\ main_pc' = "fatal"
                /\ UNCHANGED <<user_tz, QUERY_START, QUERY_END>>
           ELSE /\ user_tz' = zone.value
                /\ IF start_utc.raised \/ end_utc.raised
                   THEN /\ main_pc' = "fatal"
                        /\ UNCHANGED <<QUERY_START, QUERY_END>>
                   ELSE /\ main_pc' = "configured"
                        /\ QUERY_START' = strftime_z(start_utc.value)
                        /\ QUERY_END' = strftime_z(end_utc.value)
    /\ UNCHANGED <<interactive, export_conversations, export_memories,
                   final_start_date, final_end_date, final_timezone, now,
                   network_calls, results, summary>>
    /\ UNCHANGED <<final_organize_by_month, final_separate_transcripts,
                   conversations_by_day, files_written, files, calls,
                   last_batch, seen, sink_raised>>
    /\ UNCHANGED <<normVars, filterVars, engineVars, memVars>>

\* Line 1007 when conversations are not exported
SkipConversations ==
    /\ main_pc = "configure"
    /\ ~export_conversations
    /\ main_pc' = "configured"
    /\ UNCHANGED <<interactive, export_conversations, export_memories,
                   final_start_date, final_end_date, final_timezone, now,
                   QUERY_START, QUERY_END, network_calls, results, summary>>
    /\ UNCHANGED <<normVars, filterVars, engineVars, sinkVars, memVars>>

\* Lines 1329-1337: get_memories issues the first request of the run (the
\* call of get_conversations, line 1246, stands inside process_batch)
ExportMemories ==
    /\ main_pc = "configured"
    /\ export_memories
    /\ network_calls' = network_calls + 1
    /\ main_pc' = "summary"
    /\ UNCHANGED <<interactive, export_conversations, export_memories,
                   final_start_date, final_end_date, final_timezone, now,
                   QUERY_START, QUERY_END, results, summary>>
    /\ UNCHANGED <<normVars, filterVars, engineVars, sinkVars, memVars>>

\* Line 1329 when memories are not exported
SkipMemories ==
    /\ main_pc = "configured"
    /\ ~export_memories
    /\ main_pc' = "summary"
    /\ UNCHANGED <<interactive, export_conversations, export_memories,
                   final_start_date, final_end_date, final_timezone, now,
                   QUERY_START, QUERY_END, network_calls, results, summary>>
    /\ UNCHANGED <<normVars, filterVars, engineVars, sinkVars, memVars>>

\* Lines 1372-1377: the final summary prints len(results). results is the
\* empty list of line 1002: the only assignment to it, the call of
\* get_conversations at line 1246, is a statement of process_batch's body
\* (lines 1108-1326) and main calls neither function.
FinalSummary ==
    /\ main_pc = "summary"
    /\ summary' = IF export_conversations THEN Append(summary, Len(results))
                  ELSE summary
    /\ main_pc' = "done"
    /\ UNCHANGED <<interactive, export_conversations, export_memories,
                   final_start_date, final_end_date, final_timezone, now,
                   QUERY_START, QUERY_END, network_calls, results>>
    /\ UNCHANGED <<normVars, filterVars, engineVars, sinkVars, memVars>>

MainNext ==
    \/ ConfigureExport
    \/ SkipConversations
    \/ ExportMemories
    \/ SkipMemories
    \/ FinalSummary

SpecMain == MainInit /\ [][MainNext]_vars

----------------------------------------------------------------------------
(* get_memories (lines 620-679) *)

\* The offset and categories arguments of a call
MemoryOffsets == {0, 1}
MemoryCategories == {"", "work"}

\* The page the memories endpoint serves for an offset: the records that
\* follow it, at most k of them, k being at most the requested limit
\* (line 668: "The API might return fewer items than requested")
memories_page(page_offset, k) ==
    LET left == remote_memories - page_offset
        n == IF left <= 0 THEN 0 ELSE IF left < k THEN left ELSE k
    IN  [i \in 1..n |-> page_offset + i]

\* Lines 640-646: the query parameters; an empty categories stands for the
\* parameter left out
request_params ==
    [limit |-> limit, offset |-> current_offset, categories |-> categories]

advance_by_limit(offset_before, data) == offset_before + limit

\* Line 669: current_offset += len(data)
advance(offset_before, data) == offset_before + Len(data)

\* Number of requests answered with HTTP 429 so far
MemoryThrottles ==
    Cardinality({i \in DOMAIN memory_requests :
                    memory_requests[i].answer = "rate_limit"})

\* Lines 632-633 with the arguments of the call
MemoriesInit ==
    /\ limit \in 1..MaxLimit
    /\ memories_offset \in MemoryOffsets
    /\ categories \in MemoryCategories
    /\ remote_memories \in 0..MaxMemories
    /\ current_offset = memories_offset
    /\ all_memories = <<>>
    /\ memory_requests = <<>>
    /\ memory_sleeps = 0
    /\ memory_pc = "loop"
    /\ memories = <<>>
    /\ NormIdle /\ FilterIdle /\ EngineIdle /\ SinkIdle /\ MainIdle

\* One turn of the while loop, lines 639-676, and the return of line 679
\* when the turn breaks.  The remote answers with a page, with HTTP 429, or
\* the request fails with a RequestException (raise_for_status included).
RequestMemories ==
    /\ memory_pc = "loop"
    /\ \E answer \in {"ok", "rate_limit", "error"}, k \in 1..limit :
        LET data == IF answer = "ok" THEN memories_page(current_offset, k)
                    ELSE <<>>
            entry == [params |-> request_params, answer |-> answer,
                      had |-> Len(all_memories), data |-> data]
        IN  /\ answer = "rate_limit" => MemoryThrottles < MaxFaults
            /\ memory_requests' = Append(memory_requests, entry)
            /\ IF answer = "rate_limit"
               THEN /\ memory_sleeps' = memory_sleeps + 1
                    /\ UNCHANGED <<current_offset, all_memories, memory_pc,
                                   memories>>
               ELSE IF answer = "error" \/ data = <<>>
               THEN /\ memory_pc' = "returned"
                    /\ memories' = all_memories
                    /\ UNCHANGED <<current_offset, all_memories,
                                   memory_sleeps>>
               ELSE /\ all_memories' = all_memories \o data
                    /\ current_offset' = advance(current_offset, data)
                    /\ memory_sleeps' = memory_sleeps + 1
                    /\ UNCHANGED <<memory_pc, memories>>
    /\ UNCHANGED <<limit, memories_offset, categories, remote_memories>>
    /\ UNCHANGED <<normVars, filterVars, engineVars, sinkVars, mainVars>>

MemoriesNext == RequestMemories

SpecMemories == MemoriesInit /\ [][MemoriesNext]_vars

----------------------------------------------------------------------------
(* Properties *)

\* start <= ts <= end, an absent bound being satisfied
within_window(ts, s, e) == (~s.ok \/ s.t <= ts.t) /\ (~e.ok \/ ts.t <= e.t)

Parseable(conv) == parse_timestamp_from_conversation(conv).ok

\* C1: once the Range Filter has run on a page and a window, a record of the
\* page with a parseable timestamp ts is among the kept records if and only
\* if (start absent or start <= ts) and (end absent or ts <= end).
C1_WindowCorrectness ==
    fres.ran =>
        \A i \in 1..Len(fpage) :
            LET ts == parse_timestamp_from_conversation(fpage[i])
            IN  ts.ok => ((fpage[i] \in Range(fres.kept))
                            <=> within_window(ts, fstart, fend))

\* C1 witness: both bounds set, a record dated exactly at start is kept and
\* another parseable record is dropped
C1_Witness ==
    /\ fres.ran /\ fstart.ok /\ fend.ok
    /\ \E i, j \in 1..Len(fpage) :
        /\ Parseable(fpage[i]) /\ Parseable(fpage[j])
        /\ parse_timestamp_from_conversation(fpage[i]).t = fstart.t
        /\ fpage[i] \in Range(fres.kept)
        /\ fpage[j] \notin Range(fres.kept)

C3_FullyWithinWindow ==
    fres.ran =>
        (fres.cont <=>
            \A i \in 1..Len(fpage) :
                LET ts == parse_timestamp_from_conversation(fpage[i])
                IN  ts.ok => within_window(ts, fstart, fend))

\* C3 witness: the flag is false only because of a record after the end
\* bound, in a page that also holds an unparseable record
C3_Witness ==
    /\ fres.ran /\ ~fres.cont /\ fend.ok
    /\ \E i \in 1..Len(fpage) : ~Parseable(fpage[i])
    /\ \A i \in 1..Len(fpage) :
        LET ts == parse_timestamp_from_conversation(fpage[i])
        IN  ts.ok => (~fstart.ok \/ fstart.t <= ts.t)

\* The day keys the latest batch touched
TouchedDays == {day_key_of(last_batch[i]) : i \in 1..Len(last_batch)}

\* C4: when a process_batch call has returned, the files of every day key
\* the batch touched hold the complete current contents of that day's bucket.
C4_FlushPolicy ==
    ~sink_raised => \A day_key \in TouchedDays :
        LET written == day_files(day_key, conversations_by_day[day_key])
        IN  \A p \in DOMAIN written : p \in DOMAIN files /\ files[p] = written[p]

\* The records the filter keeps of the page at offset off
KeptAt(off) == EngineFilter(off, PageAt(off)).kept

\* C5: when get_conversations has returned, no fetch that finished with a
\* page holding kept records is left unprocessed in the futures dict.
C5_Draining ==
    pc = "done" =>
        \A off \in DOMAIN futures :
            ~(futures[off] = "page" /\ PageAt(off) # <<>> /\ KeptAt(off) # <<>>)

\* The scenario of C6: the window is [1, 2], the collection is two full
\* pages, the first dated inside the window and the second after its end, and
\* the remote answers every fetch with its page
BoundaryScenario ==
    /\ start_date = StrZ(1) /\ end_date = StrZ(2)
    /\ Len(source) = 2 * PAGE_LIMIT
    /\ \A i \in 1..Len(source) :
        source[i]["created_at"] = NumEpoch(IF i <= PAGE_LIMIT THEN 1 ELSE MaxTick)
    /\ faults = 0

\* C6 as stated: in the boundary scenario get_conversations returns exactly
\* the records of page 0 and issues exactly two fetches, of offsets 0 and
\* PAGE_LIMIT.
C6_TwoFetches ==
    (BoundaryScenario /\ pc = "done") =>
        /\ result = PageAt(0)
        /\ requests = <<Request(0, "new"), Request(PAGE_LIMIT, "new")>>

\* C6 amended: in the boundary scenario get_conversations returns exactly the
\* records of page 0 and issues exactly 1 + MAX_WORKERS fetches: offset 0,
\* then the MAX_WORKERS offsets PAGE_LIMIT, 2*PAGE_LIMIT, ... submitted
\* together; the filter reports page 1 as not wholly within the window.
C6_BoundaryScenario ==
    (BoundaryScenario /\ pc = "done") =>
        /\ result = PageAt(0)
        /\ requests = [i \in 1..(1 + MAX_WORKERS) |-> Request((i - 1) * PAGE_LIMIT, "new")]
        /\ ~filter_conversations_by_date(PageAt(PAGE_LIMIT), start_date_utc,
                                         end_date_utc).cont

\* C6 witness: the scenario has run to its end and page 1 was processed
C6_Witness ==
    /\ BoundaryScenario /\ pc = "done"
    /\ \E i \in 1..Len(processed) :
        processed[i].off = PAGE_LIMIT /\ processed[i].kind = "page" /\ ~processed[i].cont

\* A page not wholly within the window has been processed
BoundaryCrossed ==
    \E i \in 1..Len(processed) : processed[i].kind = "page" /\ ~processed[i].cont

\* C7 as stated: once a page for which fullyWithinWindow is false has been
\* processed, no fetch of any kind is issued.
C7_NoRequestAfterBoundary == [][BoundaryCrossed => requests' = requests]_vars

\* C7 amended: once a page for which fullyWithinWindow is false has been
\* processed, no new offset is requested; the only fetches issued afterwards
\* are resubmissions of offsets that were answered RateLimited.
C7_NoNewOffsetAfterBoundary ==
    [][BoundaryCrossed =>
        /\ offset' = offset
        /\ \A i \in (Len(requests) + 1)..Len(requests') : requests'[i].how = "retry"]_vars

\* C7 witness: a throttled fetch was resubmitted after a page that crossed
\* the window had been processed
C7_Witness ==
    \E i, j \in 1..Len(processed) :
        /\ i < j
        /\ processed[i].kind = "page" /\ ~processed[i].cont
        /\ processed[j].kind = "rate_limit"

\* A processed page was full, had nothing kept and was reported within the
\* window
GapPage(h) == h.kind = "page" /\ h.count = PAGE_LIMIT /\ h.kept = <<>> /\ h.cont

\* C8: when get_conversations has returned, the offset after every full page
\* of which the filter kept nothing while reporting it within the window has
\* been requested.
C8_GapTolerance ==
    pc = "done" =>
        \A i \in 1..Len(processed) :
            GapPage(processed[i]) =>
                \E j \in 1..Len(requests) : requests[j].off = processed[i].off + PAGE_LIMIT

\* The priming fetch of offset 0 ended with a page
Primed == processed # <<>> /\ processed[1].off = 0 /\ processed[1].kind = "page"

\* C9: after a priming fetch that succeeded, a primed page shorter than
\* PAGE_LIMIT ends the retrieval with no request but those of offset 0, and
\* a full primed page wholly within the window leads to the parallel phase
\* and the request of offset PAGE_LIMIT.
C9_PrimingOutcome ==
    Primed =>
        /\ processed[1].count < PAGE_LIMIT =>
            /\ pc = "done"
            /\ \A j \in 1..Len(requests) : requests[j].off = 0
        /\ (processed[1].count = PAGE_LIMIT /\ processed[1].cont) =>
            \/ pc = "loop" /\ has_more_data
            \/ /\ pc \in {"collect", "done"}
               /\ \E j \in 1..Len(requests) : requests[j] = Request(PAGE_LIMIT, "new")

\* C9 witness: with a window set, a full primed page within it was followed
\* by the request of offset PAGE_LIMIT
C9_Witness ==
    /\ Primed /\ start_date_utc.ok
    /\ processed[1].count = PAGE_LIMIT /\ processed[1].cont
    /\ \E j \in 1..Len(requests) : requests[j] = Request(PAGE_LIMIT, "new")

\* Offset 0 was answered RateLimited once and then with a page shorter than
\* PAGE_LIMIT
ThrottledPriming ==
    /\ Len(requests) >= 2 /\ requests[2] = Request(0, "retry")
    /\ Primed /\ processed[1].count < PAGE_LIMIT

\* C10: if offset 0 is answered RateLimited once and then with a page
\* shorter than PAGE_LIMIT, the engine has waited once, fetched offset 0
\* exactly twice and no other offset, and returns the kept records of that
\* page.
C10_PrimingThrottle ==
    ThrottledPriming =>
        /\ pc = "done"
        /\ sleeps = 1
        /\ requests = <<Request(0, "new"), Request(0, "retry")>>
        /\ result = filter_conversations_by_date(PageAt(0), parse_bound(start_date),
                                                 parse_bound(end_date)).kept

\* C10 witness: the throttled priming returned a record
C10_Witness == ThrottledPriming /\ pc = "done" /\ result # <<>>

\* The page completion a step has just handled
LastHandled == processed'[Len(processed')]
Completes(kind) ==
    /\ pc = "collect"
    /\ Len(processed') = Len(processed) + 1
    /\ LastHandled.kind = kind

\* Offsets with a RateLimited completion handled in the parallel phase
Throttled(o) ==
    \E i \in DOMAIN processed :
        i > 1 /\ processed[i].kind = "rate_limit" /\ processed[i].off = o

InFlight == Cardinality(DOMAIN futures)

\* The priming ended in a failure: the first fetch failed, or it was
\* throttled and the retry failed or was throttled again
PrimingFailed == processed # <<>> /\ processed[1].kind # "page"

\* C11: when the priming fetch ends in Failed (a second RateLimited answer to
\* the single retry included), get_conversations has returned the empty
\* sequence, the callback was never invoked and every fetch issued was for
\* offset 0.
C11_PrimingAbort ==
    PrimingFailed =>
        /\ pc = "done"
        /\ result = <<>>
        /\ delivered = <<>>
        /\ \A i \in DOMAIN requests : requests[i].off = 0

\* C11 witness: the first fetch was throttled and so was the retry.
C11_Witness ==
    /\ PrimingFailed
    /\ processed[1].kind = "rate_limit"
    /\ Len(requests) = 2
    /\ requests[2] = Request(0, "retry")

\* C12: in the parallel phase a fetch that completes as Failed is dropped
\* without being fetched again, leaves the more-data flag, the accumulated
\* output and the deliveries as they were, and leaves the engine collecting
\* the other fetches in flight; get_conversations does not end on it.
C12_PartialFailure ==
    [][Completes("error") =>
          /\ requests' = requests
          /\ LastHandled.off \notin DOMAIN futures'
          /\ has_more_data' = has_more_data
          /\ all_data' = all_data
          /\ delivered' = delivered
          /\ pending' = pending \ {LastHandled.off}
          /\ pc' = "collect"
          /\ result' = result]_vars

\* C12 witness: a fetch of the parallel phase failed and a later page was
\* processed afterwards and its kept records delivered.
C12_Witness ==
    \E i, j \in DOMAIN processed :
        /\ 1 < i /\ i < j
        /\ processed[i].kind = "error"
        /\ processed[j].kind = "page"
        /\ processed[j].off > processed[i].off
        /\ processed[j].kept # <<>>
        /\ \E d \in DOMAIN delivered : delivered[d].batch = processed[j].kept

\* C13: in the parallel phase a completion classified RateLimited causes
\* exactly one resubmission, of the same offset; the offset cursor, the
\* accumulated output and the more-data flag are unchanged, and as many
\* fetches are in flight after the resubmission as before the completion.
C13_ThrottleResubmission ==
    [][Completes("rate_limit") =>
          /\ requests' = Append(requests, Request(LastHandled.off, "retry"))
          /\ offset' = offset
          /\ all_data' = all_data
          /\ has_more_data' = has_more_data
          /\ DOMAIN futures' = DOMAIN futures
          /\ active_requests' = active_requests]_vars

\* C13 witness: a throttled offset of the parallel phase is in flight again
\* while the engine is still collecting.
C13_Witness ==
    /\ pc = "collect"
    /\ \E o \in DOMAIN futures : Throttled(o) /\ o \notin pending

\* C14: get_conversations does not return while the resubmitted fetch of an
\* offset that was answered RateLimited in the parallel phase is still
\* unprocessed.
C14_NeverAbandoned ==
    pc = "done" => \A o \in DOMAIN futures : ~Throttled(o)

\* C15: the more-data flag is cleared only on handling a page that is empty,
\* shorter than the page size or not fully within the window; once it is
\* cleared in the parallel phase it stays cleared and no fetch of a new
\* offset is issued.
C15_FlagMonotonic ==
    [][/\ (has_more_data /\ ~has_more_data') =>
              /\ Len(processed') = Len(processed) + 1
              /\ LastHandled.kind = "page"
              /\ \/ LastHandled.count = 0
                 \/ LastHandled.count < PAGE_LIMIT
                 \/ ~LastHandled.cont
       /\ (pc \in {"loop", "collect", "done"} /\ ~has_more_data) =>
              /\ ~has_more_data'
              /\ offset' = offset
              /\ Len(requests') >= Len(requests)
              /\ \A i \in (Len(requests) + 1)..Len(requests') :
                     requests'[i].how # "new"]_vars

\* C15 witness: the flag was cleared by a page that crossed the window while
\* another fetch was still to be collected.
C15_Witness ==
    /\ pc = "collect"
    /\ ~has_more_data
    /\ pending # {}
    /\ ~processed[Len(processed)].cont

\* A page of the parallel phase that was not fully within the window
CrossedInParallel(i) ==
    i > 1 /\ processed[i].kind = "page" /\ ~processed[i].cont

\* kept went to the callback and stands in the accumulated output
IsDelivered(kept) ==
    \E j \in DOMAIN delivered :
        /\ delivered[j].batch = kept
        /\ delivered[j].total <= Len(all_data)
        /\ SubSeq(all_data, delivered[j].total - Len(kept) + 1, delivered[j].total) = kept

\* C16: once a page of the parallel phase that is not fully within the window
\* has been handled, the more-data flag is clear, and the records of that
\* page that the filter kept have been delivered to the callback and
\* appended to the accumulated output.
C16_BoundaryPageDelivered ==
    \A i \in DOMAIN processed :
        CrossedInParallel(i) =>
            /\ ~has_more_data
            /\ processed[i].kept # <<>> => IsDelivered(processed[i].kept)

\* C16 witness: such a page with a record kept and a record dropped.
C16_Witness ==
    \E i \in DOMAIN processed :
        /\ CrossedInParallel(i)
        /\ processed[i].kept # <<>>
        /\ Len(processed[i].kept) < processed[i].count

\* C17: the fetches in flight (submitted and not yet processed, resubmissions
\* after a throttle included) never number more than MAX_WORKERS.
C17_BoundedConcurrency ==
    /\ InFlight <= MAX_WORKERS
    /\ active_requests <= MAX_WORKERS

\* C17 witness: MAX_WORKERS fetches in flight, a resubmission among them,
\* in a round after the first.
C17_Witness ==
    /\ pc = "collect"
    /\ InFlight = MAX_WORKERS
    /\ \E o \in DOMAIN futures : Throttled(o)
    /\ \E o \in DOMAIN futures : ~Throttled(o) /\ o > MAX_WORKERS * PAGE_LIMIT

\* C18: when every fetch of the parallel phase fails, get_conversations
\* still terminates.
C18_Terminates == <>(pc = "done")

C20_WrittenSetNoEffect ==
    [][calls' = calls + 1 => files' = files_after(last_batch', {})]_vars

\* The day a record belongs to, from the instant the filter's normalizer
\* resolves for it
ExpectedDay(conv) ==
    LET ts == parse_timestamp_from_conversation(conv)
    IN  IF ts.ok THEN Day((ts.t + user_tz) \div TicksPerDay) ELSE Unknown

BucketsOf(conv) ==
    {k \in DOMAIN conversations_by_day : conv \in Range(conversations_by_day[k])}

TimesIn(conv, bucket) == Cardinality({j \in DOMAIN bucket : bucket[j] = conv})

\* C21: each record of the batch handed to process_batch stands in exactly
\* one day bucket, once: the bucket of the day of its resolved instant in
\* the target zone, or the bucket "unknown" when no candidate field resolves.
C21_DayAssignment ==
    \A i \in DOMAIN last_batch :
        /\ BucketsOf(last_batch[i]) = {ExpectedDay(last_batch[i])}
        /\ TimesIn(last_batch[i], conversations_by_day[ExpectedDay(last_batch[i])]) = 1

\* C21 witness: a batch with an undated record and a record whose day in the
\* target zone is not its UTC day.
C21_Witness ==
    /\ \E i \in DOMAIN last_batch : ExpectedDay(last_batch[i]) = Unknown
    /\ \E i \in DOMAIN last_batch :
          LET ts == parse_timestamp_from_conversation(last_batch[i])
          IN  ts.ok /\ ExpectedDay(last_batch[i]) # Day(ts.t \div TicksPerDay)
    /\ Unknown \in DOMAIN conversations_by_day

\* The dated records of the buckets, each with its bucket's key and instant
DatedInBuckets ==
    UNION {{[key |-> k, ts |-> parse_timestamp_from_conversation(conversations_by_day[k][j])] :
               j \in {n \in DOMAIN conversations_by_day[k] :
                        parse_timestamp_from_conversation(conversations_by_day[k][n]).ok}} :
           k \in DOMAIN conversations_by_day}

\* The time of day of an instant, and its UTC day
TickOfDay(t) == t % TicksPerDay
UtcDay(t) == t \div TicksPerDay

\* C22: in a zone behind UTC, a record late in its UTC day (the last tick of
\* the day, as 23:30 is) is bucketed under the previous calendar day.
C22_LateRecordCrossesBack ==
    \A r \in DatedInBuckets :
        (user_tz < 0 /\ TickOfDay(r.ts.t) = TicksPerDay - 1)
            => r.key = Day(UtcDay(r.ts.t) - 1)

\* C22 (amended): two records with the same instant stand under the same
\* day key, and in a zone behind UTC by less than a day a record is bucketed
\* under the previous calendar day exactly when its UTC time of day is
\* earlier than the zone's distance from UTC, under its UTC day otherwise.
C22_DayBucketing ==
    /\ \A r1, r2 \in DatedInBuckets : r1.ts = r2.ts => r1.key = r2.key
    /\ \A r \in DatedInBuckets :
          r.key = IF TickOfDay(r.ts.t) < -user_tz
                  THEN Day(UtcDay(r.ts.t) - 1)
                  ELSE Day(UtcDay(r.ts.t))

\* C22 witness: in a zone behind UTC, two records of the same instant early
\* in their UTC day, bucketed under the day before, and a record late in its
\* UTC day bucketed under that day.
C22_Witness ==
    /\ user_tz < 0
    /\ \E k \in DOMAIN conversations_by_day :
          \E i, j \in DOMAIN conversations_by_day[k] :
              LET ti == parse_timestamp_from_conversation(conversations_by_day[k][i])
                  tj == parse_timestamp_from_conversation(conversations_by_day[k][j])
              IN  i < j /\ ti.ok /\ ti = tj /\ k = Day(UtcDay(ti.t) - 1)
    /\ \E r \in DatedInBuckets :
          TickOfDay(r.ts.t) = TicksPerDay - 1 /\ r.key = Day(UtcDay(r.ts.t))

\* The records of a batch that belong to day key k, in the batch's order
OfDay(batch, k) == SelectSeq(batch, LAMBDA conv : ExpectedDay(conv) = k)

\* C23: a call of process_batch leaves every bucket it found in place, and
\* each bucket after the call is the bucket before it followed by the
\* records of that day among those the call grouped, in the order they had
\* in the batch: the whole batch when the call returns, the records before
\* the one that made it raise otherwise.
C23_AppendOnly ==
    [][calls' = calls + 1 =>
          /\ DOMAIN conversations_by_day \subseteq DOMAIN conversations_by_day'
          /\ \E n \in 0..Len(last_batch') :
                /\ ~sink_raised' => n = Len(last_batch')
                /\ \A k \in DOMAIN conversations_by_day' :
                      conversations_by_day'[k]
                          = Bucket(conversations_by_day, k)
                            \o OfDay(SubSeq(last_batch', 1, n), k)]_vars

\* C23 witness: a bucket holding a record of an earlier call followed by two
\* records of the latest batch.
C23_Witness ==
    /\ calls >= 2
    /\ \E k \in DOMAIN conversations_by_day :
          LET bucket == conversations_by_day[k]
          IN  /\ Len(bucket) >= 3
              /\ bucket[1] \notin Range(last_batch)
              /\ bucket[Len(bucket) - 1] \in Range(last_batch)
              /\ bucket[Len(bucket)] \in Range(last_batch)

\* The days the call just made has flushed
FlushedNow == files_written' \ files_written

\* A record without its transcript-segment field, and whether it carries
\* segments
WithoutSegments(conv) == [f \in DOMAIN conv \ {"transcript_segments"} |-> conv[f]]
CarriesSegments(conv) ==
    "transcript_segments" \in DOMAIN conv /\ conv["transcript_segments"] # <<>>
SegmentsEntry(conv) ==
    [conversation_id |-> conv["id"],
     created_at |-> IF "created_at" \in DOMAIN conv THEN conv["created_at"] ELSE Other,
     transcript_segments |-> conv["transcript_segments"]]

\* C24: in split mode each day a call flushes gets a metadata file holding
\* every record of the bucket without its transcript-segment field, and a
\* transcripts file if and only if a record of the day has non-empty
\* segments, with one entry per such record; without split mode the single
\* day file holds the bucket's records as they are.
C24_SplitMode ==
    [][calls' = calls + 1 =>
          \A k \in FlushedNow :
              LET bucket == conversations_by_day'[k]
                  with == SelectSeq(bucket, CarriesSegments)
                  meta == Path(k, "conversations")
                  trans == Path(k, "transcripts")
              IN  IF final_separate_transcripts
                  THEN /\ meta \in DOMAIN files'
                       /\ files'[meta] = [i \in 1..Len(bucket) |-> WithoutSegments(bucket[i])]
                       /\ (trans \in DOMAIN files') <=> (with # <<>>)
                       /\ with # <<>> =>
                              files'[trans] = [i \in 1..Len(with) |-> SegmentsEntry(with[i])]
                  ELSE /\ meta \in DOMAIN files'
                       /\ files'[meta] = bucket
                       /\ trans \notin DOMAIN files']_vars

\* C24 witness: split mode, a day with a transcripts file and a flushed day
\* without one whose record has the field with no segments in it.
C24_Witness ==
    /\ final_separate_transcripts
    /\ \E k \in files_written : Path(k, "transcripts") \in DOMAIN files
    /\ \E k \in files_written :
          /\ Path(k, "transcripts") \notin DOMAIN files
          /\ \E i \in DOMAIN conversations_by_day[k] :
                "transcript_segments" \in DOMAIN conversations_by_day[k][i]

C26_NeverRaises == ~nfilter.raised /\ ~nsink.raised

\* The candidate fields of a record that are present with a value that parses
ParsingFields(conv) ==
    {i \in DOMAIN TimestampFields :
        /\ TimestampFields[i] \in DOMAIN conv
        /\ parse_value(conv[TimestampFields[i]]).ok}

\* The parse of the first of them in the priority order, None without one
FirstParsing(conv) ==
    IF ParsingFields(conv) = {} THEN None
    ELSE LET first == CHOOSE i \in ParsingFields(conv) :
                          \A j \in ParsingFields(conv) : i <= j
         IN  parse_value(conv[TimestampFields[first]])

\* C27: each normalizer returns, for every record, the parse of the first
\* candidate field in the priority order that is present and parses; a
\* present field that fails to parse does not stop the scan, and the result
\* is unparseable exactly when no candidate field parses.
C27_FieldSelection ==
    /\ nfilter.ran => nfilter = Returned(FirstParsing(nconv))
    /\ nsink.ran => nsink = Returned(FirstParsing(nconv))

\* The window get_conversations derives from the strings main prepares for
\* it (lines 403-419)
WindowStart == parse_bound(QUERY_START)
WindowEnd == parse_bound(QUERY_END)

\* C28: once main has accepted the configured dates, the window it prepares
\* for the retrieval has start <= end whenever both bounds are present.
C28_WindowOrdered ==
    (export_conversations /\ main_pc \in {"configured", "summary", "done"})
        => ((WindowStart.ok /\ WindowEnd.ok) => WindowStart.t <= WindowEnd.t)

\* A start date that is not a calendar date, an end date that is neither a
\* calendar date nor "now", a zone name the tz database does not hold
InvalidConfiguration ==
    /\ export_conversations
    /\ \/ final_start_date.form \notin {"ymd", "loose"}
       \/ final_end_date.form \notin {"ymd", "loose", "now"}
       \/ final_timezone \notin DOMAIN ZoneOffsets

\* C29: when the start date, the end date or the time-zone name of an export
\* of conversations is malformed, the run never gets past the configuration
\* (it is still reading it, or has ended with the error) and has issued no
\* request.
C29_InvalidConfigurationFatal ==
    InvalidConfiguration
        => (network_calls = 0 /\ main_pc \in {"configure", "fatal"})

\* C29 witness: a run that was to export memories too has ended with the
\* error of a malformed date, before its first request.
C29_Witness ==
    /\ InvalidConfiguration
    /\ final_timezone \in DOMAIN ZoneOffsets
    /\ export_memories
    /\ main_pc = "fatal"
    /\ network_calls = 0

\* a is b with some of its elements left out, the others in b's order
RECURSIVE IsSubsequence(_, _)
IsSubsequence(a, b) ==
    IF a = <<>> THEN TRUE
    ELSE IF b = <<>> THEN FALSE
    ELSE IF Head(a) = Head(b) THEN IsSubsequence(Tail(a), Tail(b))
    ELSE IsSubsequence(a, Tail(b))

\* The offsets a page can start at
PageOffsets == {off \in 0..Len(source) : off % PAGE_LIMIT = 0}

\* The slice of an output that a delivered batch announced with its total
SliceOf(output, d) == SubSeq(output, d.total - Len(d.batch) + 1, d.total)

\* C30: every batch delivered to the callback is a page of the remote with
\* some records left out and the others in the page's order, and it stands
\* as a contiguous run, in that order, in the accumulated output and in the
\* sequence get_conversations returns.
C30_WithinPageOrder ==
    \A j \in DOMAIN delivered :
        /\ \E off \in PageOffsets : IsSubsequence(delivered[j].batch, PageAt(off))
        /\ delivered[j].total <= Len(all_data)
        /\ SliceOf(all_data, delivered[j]) = delivered[j].batch
        /\ pc = "done" => SliceOf(result, delivered[j]) = delivered[j].batch

\* C30 witness: a returned run in which a page was kept whole, with two
\* records, and the next page lost a record to the filter.
C30_Witness ==
    /\ pc = "done"
    /\ Len(delivered) >= 2
    /\ Len(delivered[1].batch) >= 2
    /\ \E off \in PageOffsets :
          /\ IsSubsequence(delivered[2].batch, PageAt(off))
          /\ Len(delivered[2].batch) < Len(PageAt(off))
    /\ result = delivered[1].batch \o delivered[2].batch

\* C31: when a run that exports conversations with a valid configuration
\* has printed its final summary, get_conversations has been invoked and
\* has returned, process_batch was its consumer, and the summary reports
\* the number of records it returned.
C31_RetrievalInvoked ==
    (export_conversations /\ main_pc = "done")
        => /\ pc = "done"
           /\ calls = Len(delivered)
           /\ summary = <<Len(result)>>

\* get_conversations was called without a window
NoWindow == start_date = Other /\ end_date = Other

\* C32: when get_conversations has returned from a call without a window in
\* which no fetch was answered Failed or RateLimited, the returned sequence
\* contains every record of the source.
C32_CompleteWithoutWindow ==
    (pc = "done" /\ NoWindow /\ faults = 0)
        => \A i \in DOMAIN source : source[i] \in Range(result)

\* How many times x stands in the sequence q
Occurrences(x, q) == Cardinality({i \in DOMAIN q : q[i] = x})

\* The batches handed to the callback so far, one after the other
RECURSIVE Concatenated(_, _)
Concatenated(log, n) ==
    IF n = 0 THEN <<>> ELSE Concatenated(log, n - 1) \o log[n].batch

DeliveredRecords == Concatenated(delivered, Len(delivered))

\* The completions handled so far that carried the page of offset off
PagesHandled(off) ==
    {i \in DOMAIN processed : processed[i].kind = "page" /\ processed[i].off = off}

\* C33: within one call each offset has at most one processed page, and each
\* record of the source stands at most once among the records delivered to
\* the callback, in the accumulated output and in the returned sequence.
C33_NoDuplication ==
    /\ \A i \in DOMAIN processed : Cardinality(PagesHandled(processed[i].off)) <= 1
    /\ \A i \in DOMAIN source :
          /\ Occurrences(source[i], DeliveredRecords) <= 1
          /\ Occurrences(source[i], all_data) <= 1
          /\ Occurrences(source[i], result) <= 1

\* C33 witness: a returned run in which an offset of the parallel phase was
\* throttled, fetched again, and its page delivered.
C33_Witness ==
    /\ pc = "done"
    /\ \E i, j \in DOMAIN processed :
          /\ 1 < i /\ i < j
          /\ processed[i].kind = "rate_limit"
          /\ processed[j].kind = "page"
          /\ processed[j].off = processed[i].off
          /\ processed[j].kept # <<>>
          /\ \A k \in DOMAIN processed[j].kept :
                Occurrences(processed[j].kept[k], result) = 1

\* C34: the running total of every callback invocation is the number of
\* records delivered up to and including its batch, the accumulated output
\* is the concatenation of the delivered batches in delivery order, and so
\* is the sequence get_conversations returns.
C34_DeliveryAgreement ==
    /\ \A j \in DOMAIN delivered :
          delivered[j].total = Len(Concatenated(delivered, j))
    /\ all_data = DeliveredRecords
    /\ pc = "done" => result = DeliveredRecords

\* C34 witness: a returned run with at least two deliveries, in which the
\* filter dropped a record of the source.
C34_Witness ==
    /\ pc = "done"
    /\ Len(delivered) >= 2
    /\ delivered[2].total > Len(delivered[2].batch)
    /\ Len(result) < Len(source)
    /\ start_date_utc.ok \/ end_date_utc.ok

\* The fetches issued for a new offset (lines 439 and 510), in order, and
\* the fetches issued again (lines 444 and 527)
NewRequests == SelectSeq(requests, LAMBDA r : r.how = "new")
Resubmissions(o) ==
    Cardinality({k \in DOMAIN requests : requests[k] = Request(o, "retry")})

\* The RateLimited answers handled so far for offset o: those of the
\* parallel phase are in processed, the one of the priming is every wait
\* that is not the wait of a parallel one
ParallelThrottles ==
    Cardinality({i \in DOMAIN processed :
                    i > 1 /\ processed[i].kind = "rate_limit"})
ThrottlesOf(o) ==
    IF o = 0 THEN sleeps - ParallelThrottles
    ELSE Cardinality({i \in DOMAIN processed :
                         processed[i].kind = "rate_limit" /\ processed[i].off = o})

\* C35: the fetches issued for new offsets are those of 0, PAGE_LIMIT,
\* 2*PAGE_LIMIT, ... in this order, each once and none skipped, and every
\* other fetch is one of the resubmissions of its offset, of which there are
\* as many as RateLimited answers handled for that offset.
C35_OffsetCursor ==
    /\ \A k \in DOMAIN NewRequests : NewRequests[k].off = (k - 1) * PAGE_LIMIT
    /\ \A k \in DOMAIN requests :
          requests[k].how # "new" =>
              /\ requests[k].how = "retry"
              /\ Resubmissions(requests[k].off) = ThrottlesOf(requests[k].off)
              /\ \E j \in 1..(k - 1) : requests[j].off = requests[k].off

\* C35 witness: a returned run with three new offsets and a resubmission of
\* an offset of the parallel phase.
C35_Witness ==
    /\ pc = "done"
    /\ Len(NewRequests) >= 3
    /\ \E k \in DOMAIN requests :
          requests[k].how = "retry" /\ requests[k].off > 0

\* The test of lines 561-563 on what the filter returned for the page: a
\* full page, nothing kept, still within the window
GapBranch(page, fr) == fr.cont /\ fr.kept = <<>> /\ Len(page) = PAGE_LIMIT

\* C36: when filter_conversations_by_date has run on a non-empty page and
\* reports the page fully within the window, the kept records are the whole
\* page, and so the page does not take the engine's branch for a full page
\* of which nothing is kept.
C36_NoGapFromRealFilter ==
    (fres.ran /\ fpage # <<>>)
        => /\ fres.cont => fres.kept = fpage
           /\ ~GapBranch(fpage, fres)

\* C36 witness: a full page judged against a window with both bounds,
\* holding a record without timestamp and a dated one, reported fully
\* within the window.
C36_Witness ==
    /\ fres.ran /\ fres.cont
    /\ fstart.ok /\ fend.ok
    /\ Len(fpage) = PAGE_LIMIT
    /\ \E i, j \in DOMAIN fpage : ~Parseable(fpage[i]) /\ Parseable(fpage[j])

\* C37: for every record the sink's field scan with parse_timestamp ends as
\* parse_timestamp_from_conversation does, with the same instant, with the
\* unparseable result, or with the exception; and when they return, the day
\* key the sink gives the record is the day of the instant the filter's
\* normalizer resolves, "unknown" when it resolves none.
C37_ResolutionsAgree ==
    (nfilter.ran /\ nsink.ran)
        => /\ nsink = nfilter
           /\ ~nfilter.raised => day_key_of(nconv) = ExpectedDay(nconv)

\* C37 witness: both have resolved the instant of a record whose first
\* candidate field does not parse and whose second is a string that only
\* the second fromisoformat reads.
C37_Witness ==
    /\ nfilter.ran /\ nsink.ran
    /\ nfilter.value.ok /\ nsink.value = nfilter.value
    /\ \E i, j \in DOMAIN TimestampFields :
          /\ i < j
          /\ DOMAIN nconv = {"id", TimestampFields[i], TimestampFields[j]}
          /\ ~parse_value(nconv[TimestampFields[i]]).ok
          /\ nconv[TimestampFields[j]].form = "fallback"

\* C38: a retrieval from a remote that is finite, answers the offsets past
\* its end with empty pages, never fails and throttles only finitely often
\* eventually returns, when every step that can be taken is taken.
C38_ReturnsFromReliableRemote == <>(pc = "done")

\* C38 witness: such a retrieval has returned after an offset of the
\* parallel phase was throttled and after the empty page past the end of the
\* source was handled.
C38_Witness ==
    /\ reliable
    /\ pc = "done"
    /\ \E i \in DOMAIN processed : i > 1 /\ processed[i].kind = "rate_limit"
    /\ \E i \in DOMAIN processed :
          processed[i].kind = "page" /\ processed[i].count = 0
                                     /\ processed[i].off >= Len(source)

\* The request ended the loop: it failed, or it returned an empty page
EndsLoop(entry) ==
    entry.answer = "error" \/ (entry.answer = "ok" /\ entry.data = <<>>)

C40_WrittenSetIsBucketKeys ==
    [][calls' = calls + 1 =>
          /\ files_written \subseteq files_written'
          /\ ~sink_raised' =>
                /\ files_written' = DOMAIN conversations_by_day'
                /\ \A day_key \in files_written' :
                      \E path \in DOMAIN files' : path.day = day_key]_vars

\* A call that returned with two days written, one of which the latest
\* batch did not touch
C40_Witness ==
    /\ calls >= 2
    /\ ~sink_raised
    /\ Cardinality(files_written) >= 2
    /\ files_written = DOMAIN conversations_by_day
    /\ \E day_key \in files_written : day_key \notin TouchedDays

====
